---- MODULE Spec2Model ----
(***************************************************************************)
(* Model of the submap crate: the SubMap subscription trie of              *)
(* src/src/submap.rs together with the formula parser/evaluator of         *)
(* src/src/mkmf.rs that the trie embeds as edge keys, the earlier SubMap   *)
(* of src/src/lib.rs and the BroadcastMap of src/src/broadcastmap.rs.      *)
(*                                                                         *)
(* Strings are sequences of one-character strings so that splitting by the *)
(* separator, prefix stripping and formula parsing are computed as the     *)
(* code computes them.  Option<T> is a sequence of length 0 (None) or 1    *)
(* (Some).  Maps are functions; sets are sets.                             *)
(***************************************************************************)
EXTENDS Integers, Sequences, FiniteSets, TLC

VARIABLES smap, last, bmap, registered, acl, inserted, eval

vars == <<smap, last, bmap, registered, acl, inserted, eval>>

\* ------------------------------------------------------------------------
\* Option<T>
\* ------------------------------------------------------------------------
None == <<>>

Some(x) == <<x>>

\* ------------------------------------------------------------------------
\* str helpers (std): split, strip_prefix, strip_suffix, parse::<i64>
\* ------------------------------------------------------------------------

\* Position of the first occurrence of the non-empty sequence pat in s, 0 if none.
Find(s, pat) ==
    LET hits == {i \in 1..(Len(s) - Len(pat) + 1) : SubSeq(s, i, i + Len(pat) - 1) = pat}
    IN  IF hits = {} THEN 0 ELSE CHOOSE i \in hits : \A j \in hits : i <= j

RECURSIVE SplitBy(_, _)
\* str::split(pat): always yields at least one (possibly empty) piece.
SplitBy(s, pat) ==
    LET i == Find(s, pat)
    IN  IF i = 0 THEN <<s>>
        ELSE <<SubSeq(s, 1, i - 1)>> \o SplitBy(SubSeq(s, i + Len(pat), Len(s)), pat)

\* topic.split(self.separator) with a char separator
Split(s, sep) == SplitBy(s, <<sep>>)

\* str::splitn(2, ch)
SplitN2(s, ch) ==
    LET i == Find(s, <<ch>>)
    IN  IF i = 0 THEN <<s>> ELSE <<SubSeq(s, 1, i - 1), SubSeq(s, i + 1, Len(s))>>

strip_prefix(s, p) ==
    IF Len(p) <= Len(s) /\ SubSeq(s, 1, Len(p)) = p
    THEN Some(SubSeq(s, Len(p) + 1, Len(s)))
    ELSE None

strip_suffix(s, p) ==
    IF Len(p) <= Len(s) /\ SubSeq(s, Len(s) - Len(p) + 1, Len(s)) = p
    THEN Some(SubSeq(s, 1, Len(s) - Len(p)))
    ELSE None

\* prefix.and_then(|p| topic.strip_prefix(p))
and_then_strip_prefix(prefix, topic) ==
    IF prefix = None THEN None ELSE strip_prefix(topic, prefix[1])

Digits == {"0", "1", "2", "3", "4", "5", "6", "7", "8", "9"}

DigitVal(ch) ==
    CASE ch = "0" -> 0 [] ch = "1" -> 1 [] ch = "2" -> 2 [] ch = "3" -> 3
      [] ch = "4" -> 4 [] ch = "5" -> 5 [] ch = "6" -> 6 [] ch = "7" -> 7
      [] ch = "8" -> 8 [] ch = "9" -> 9

RECURSIVE DecVal(_)
DecVal(ds) ==
    IF ds = <<>> THEN 0
    ELSE 10 * DecVal(SubSeq(ds, 1, Len(ds) - 1)) + DigitVal(ds[Len(ds)])

\* the decimal digits of i64::MAX and of the magnitude of i64::MIN
I64MaxDigits ==
    <<"9", "2", "2", "3", "3", "7", "2", "0", "3", "6", "8", "5", "4", "7", "7", "5", "8", "0", "7">>

I64MinDigits ==
    <<"9", "2", "2", "3", "3", "7", "2", "0", "3", "6", "8", "5", "4", "7", "7", "5", "8", "0", "8">>

RECURSIVE StripZeros(_)
StripZeros(ds) ==
    IF Len(ds) > 1 /\ Head(ds) = "0" THEN StripZeros(Tail(ds)) ELSE ds

\* digit strings of equal length compared as numbers
DigitsGreater(a, b) ==
    \E i \in 1..Len(a) :
        /\ DigitVal(a[i]) > DigitVal(b[i])
        /\ \A j \in 1..(i - 1) : a[j] = b[j]

\* the number written by the digits exceeds the number written by limit
ExceedsDigits(ds, limit) ==
    LET nz == StripZeros(ds)
    IN  Len(nz) > Len(limit) \/ (Len(nz) = Len(limit) /\ DigitsGreater(nz, limit))

\* str::parse::<i64>(): optional sign, then one or more decimal digits; Err
\* (None) for any other text and for a number outside the i64 range.  The
\* values in range that the model parses are short enough to be computed.
ParseI64(s) ==
    LET signed   == s # <<>> /\ s[1] \in {"+", "-"}
        negative == signed /\ s[1] = "-"
        ds       == IF signed THEN Tail(s) ELSE s
    IN  IF ds = <<>> \/ \E i \in 1..Len(ds) : ds[i] \notin Digits
        THEN None
        ELSE IF ExceedsDigits(ds, IF negative THEN I64MinDigits ELSE I64MaxDigits)
        THEN None
        ELSE Some(IF negative THEN 0 - DecVal(StripZeros(ds)) ELSE DecVal(StripZeros(ds)))

\* ------------------------------------------------------------------------
\* mkmf.rs: Formula, FormulaCalc
\* ------------------------------------------------------------------------
KindOf(name) ==
    CASE name = <<"e", "q">> -> "Eq"
      [] name = <<"n", "e">> -> "Ne"
      [] name = <<"g", "t">> -> "Gt"
      [] name = <<"l", "t">> -> "Lt"
      [] name = <<"g", "e">> -> "Ge"
      [] name = <<"l", "e">> -> "Le"
      [] name = <<"r", "i">> -> "Ri"
      [] OTHER -> "unknown"

\* impl FromStr for FormulaCalc; Err is None, Ok(calc) is Some(calc).
\* A calc is <<kind, n>> or <<"Ri", n, m>>.
FormulaCalc_from_str(s) ==
    LET parts == SplitBy(s, <<"(">>)
        kind  == KindOf(parts[1])
    IN  IF Len(parts) < 2 THEN None
        ELSE LET value == strip_suffix(parts[2], <<")">>)
             IN  IF value = None THEN None
                 ELSE IF kind = "unknown" THEN None
                 ELSE IF kind = "Ri" THEN
                     LET rparts == SplitBy(value[1], <<".", ".">>)
                         f1     == ParseI64(rparts[1])
                     IN  IF f1 = None THEN None
                         ELSE IF Len(rparts) < 2 THEN None
                         ELSE LET f2 == ParseI64(rparts[2])
                              IN  IF f2 = None THEN None
                                  ELSE Some(<<"Ri", f1[1], f2[1]>>)
                 ELSE LET f == ParseI64(value[1])
                      IN  IF f = None THEN None ELSE Some(<<kind, f[1]>>)

\* impl FromStr for Formula
Formula_from_str(s) ==
    LET parts   == SplitN2(s, "#")
        prefix  == IF Len(parts) = 2 THEN Some(parts[1]) ELSE None
        formula == IF Len(parts) = 2 THEN parts[2] ELSE parts[1]
        calc    == FormulaCalc_from_str(formula)
    IN  IF calc = None THEN None
        ELSE Some([prefix |-> prefix, calc |-> calc[1]])

\* FormulaCalc::matches that answers false for every unparsable value
FormulaCalc_matches_unparsed_false(calc, value) ==
    LET v == ParseI64(value)
    IN  IF v = None THEN FALSE
        ELSE CASE calc[1] = "Eq" -> v[1] = calc[2]
               [] calc[1] = "Ne" -> v[1] # calc[2]
               [] calc[1] = "Gt" -> v[1] > calc[2]
               [] calc[1] = "Lt" -> v[1] < calc[2]
               [] calc[1] = "Ge" -> v[1] >= calc[2]
               [] calc[1] = "Le" -> v[1] <= calc[2]
               [] calc[1] = "Ri" -> v[1] >= calc[2] /\ v[1] <= calc[3]

\* FormulaCalc::matches whose range excludes its upper bound
FormulaCalc_matches_open_range(calc, value) ==
    LET v == ParseI64(value)
    IN  IF v = None THEN calc[1] = "Ne"
        ELSE CASE calc[1] = "Eq" -> v[1] = calc[2]
               [] calc[1] = "Ne" -> v[1] # calc[2]
               [] calc[1] = "Gt" -> v[1] > calc[2]
               [] calc[1] = "Lt" -> v[1] < calc[2]
               [] calc[1] = "Ge" -> v[1] >= calc[2]
               [] calc[1] = "Le" -> v[1] <= calc[2]
               [] calc[1] = "Ri" -> v[1] >= calc[2] /\ v[1] < calc[3]

\* FormulaCalc::matches
FormulaCalc_matches(calc, value) ==
    LET v == ParseI64(value)
    IN  IF v = None THEN calc[1] = "Ne"
        ELSE CASE calc[1] = "Eq" -> v[1] = calc[2]
               [] calc[1] = "Ne" -> v[1] # calc[2]
               [] calc[1] = "Gt" -> v[1] > calc[2]
               [] calc[1] = "Lt" -> v[1] < calc[2]
               [] calc[1] = "Ge" -> v[1] >= calc[2]
               [] calc[1] = "Le" -> v[1] <= calc[2]
               [] calc[1] = "Ri" -> v[1] >= calc[2] /\ v[1] <= calc[3]

\* Formula::matches that evaluates the whole value when it lacks the prefix
Formula_matches_prefix_optional(f, value) ==
    IF f.prefix # None
    THEN LET v == strip_prefix(value, f.prefix[1])
         IN  IF v = None THEN FormulaCalc_matches(f.calc, value)
             ELSE FormulaCalc_matches(f.calc, v[1])
    ELSE FormulaCalc_matches(f.calc, value)

\* Formula::matches that hands the whole value, prefix included, to the function
Formula_matches_whole_value(f, value) ==
    IF f.prefix # None
    THEN LET v == strip_prefix(value, f.prefix[1])
         IN  IF v = None THEN FALSE ELSE FormulaCalc_matches(f.calc, value)
    ELSE FormulaCalc_matches(f.calc, value)

\* Formula::matches
Formula_matches(f, value) ==
    IF f.prefix # None
    THEN LET v == strip_prefix(value, f.prefix[1])
         IN  IF v = None THEN FALSE ELSE FormulaCalc_matches(f.calc, v[1])
    ELSE FormulaCalc_matches(f.calc, value)

\* keys_match_formula that yields every key when the formula does not parse
keys_match_formula_all_on_error(keys, formula) ==
    LET formula_parsed == Formula_from_str(formula)
    IN  {key \in keys : formula_parsed = None \/ Formula_matches(formula_parsed[1], key)}

\* keys_match_formula on an iterator of keys; the yielded keys as a set
keys_match_formula(keys, formula) ==
    LET formula_parsed == Formula_from_str(formula)
    IN  {key \in keys : formula_parsed # None /\ Formula_matches(formula_parsed[1], key)}

\* values_match_key_formula on the (key, value) pairs of map; the yielded
\* values as a set
values_match_key_formula(map, formula) ==
    LET formula_parsed == Formula_from_str(formula)
    IN  {map[key] : key \in {k \in DOMAIN map :
                               formula_parsed # None /\ Formula_matches(formula_parsed[1], k)}}

\* ------------------------------------------------------------------------
\* regex crate, restricted to the syntax the modelled patterns use:
\* literal characters, '.', '^', '$' and groups '(' ... ')'.
\* ------------------------------------------------------------------------
RECURSIVE ParenDepth(_, _)
\* -1 when a ')' closes nothing, otherwise the number of groups left open
ParenDepth(text, d) ==
    IF text = <<>> THEN d
    ELSE IF Head(text) = "(" THEN ParenDepth(Tail(text), d + 1)
    ELSE IF Head(text) = ")" THEN (IF d = 0 THEN 0 - 1 ELSE ParenDepth(Tail(text), d - 1))
    ELSE ParenDepth(Tail(text), d)

\* regex::Regex::new(text): Err (None) for an unbalanced group; the compiled
\* regex is represented by its source text (Regex::as_str).
Regex_new(text) ==
    IF ParenDepth(text, 0) # 0 THEN None ELSE Some(text)

RECURSIVE RegexMatchAt(_, _, _)
\* does regex text re match s starting at position i (any end position)
RegexMatchAt(re, s, i) ==
    IF re = <<>> THEN TRUE
    ELSE LET r == Head(re)
         IN  IF r = "^" THEN i = 1 /\ RegexMatchAt(Tail(re), s, i)
             ELSE IF r = "$" THEN i = Len(s) + 1 /\ RegexMatchAt(Tail(re), s, i)
             ELSE IF r \in {"(", ")"} THEN RegexMatchAt(Tail(re), s, i)
             ELSE i <= Len(s) /\ (r = "." \/ r = s[i]) /\ RegexMatchAt(Tail(re), s, i + 1)

\* Regex::is_match: unanchored search
Regex_is_match(re, s) == \E i \in 1..(Len(s) + 1) : RegexMatchAt(re, s, i)

\* ------------------------------------------------------------------------
\* submap.rs: Subscription (trie node)
\* ------------------------------------------------------------------------
EmptyMap == [k \in {} |-> {}]

\* Map::insert (overwrites an existing key)
MapInsert(m, k, v) == [x \in DOMAIN m \cup {k} |-> IF x = k THEN v ELSE m[x]]

\* Map::remove
MapRemove(m, k) == [x \in DOMAIN m \ {k} |-> m[x]]

\* Vec::remove(pos)
VecRemove(v, pos) == SubSeq(v, 1, pos - 1) \o SubSeq(v, pos + 1, Len(v))

\* impl Default for Subscription
Subscription_default ==
    [subscribers          |-> {},
     subtopics            |-> EmptyMap,
     subtopics_by_formula |-> EmptyMap,
     subtopics_by_regex   |-> <<>>,
     subtopics_any        |-> None,
     sub_any              |-> {}]

\* Subscription::is_empty
Subscription_is_empty(sub) ==
    /\ sub.subscribers = {}
    /\ DOMAIN sub.subtopics = {}
    /\ DOMAIN sub.subtopics_by_formula = {}
    /\ Len(sub.subtopics_by_regex) = 0
    /\ sub.subtopics_any = None
    /\ sub.sub_any = {}

\* a position lookup that never finds the regex
RegexPosition_never_found(v, regex) == 0

\* subtopics_by_regex.iter().position(|rs| rs.regex.as_str() == regex.as_str())
RegexPosition(v, regex) ==
    LET hits == {i \in 1..Len(v) : v[i].regex = regex}
    IN  IF hits = {} THEN 0 ELSE CHOOSE i \in hits : \A j \in hits : i <= j

RECURSIVE subscribe_rec_wildcard_descends(_, _, _, _, _, _, _)
\* subscribe_rec that goes on with the segments after a wildcard token
subscribe_rec_wildcard_descends(subscription, sp, client, wildcard, match_any, formula_prefix, regex_prefix) ==
    IF sp = <<>> THEN [subscription EXCEPT !.subscribers = @ \cup {client}]
    ELSE
    LET topic   == Head(sp)
        rest    == Tail(sp)
        formula == and_then_strip_prefix(formula_prefix, topic)
        regex   == and_then_strip_prefix(regex_prefix, topic)
        into(sub) == subscribe_rec_wildcard_descends(sub, rest, client, wildcard, match_any,
                                   formula_prefix, regex_prefix)
    IN  IF topic \in wildcard THEN
            [into(subscription) EXCEPT !.sub_any = @ \cup {client}]
        ELSE IF topic \in match_any THEN
            IF subscription.subtopics_any # None
            THEN [subscription EXCEPT !.subtopics_any = Some(into(@[1]))]
            ELSE [subscription EXCEPT !.subtopics_any = Some(into(Subscription_default))]
        ELSE IF formula # None THEN
            LET formula_parsed == Formula_from_str(formula[1])
            IN  IF formula_parsed = None THEN subscription
                ELSE IF formula_parsed[1] \in DOMAIN subscription.subtopics_by_formula
                THEN [subscription EXCEPT
                        !.subtopics_by_formula[formula_parsed[1]] = into(@)]
                ELSE [subscription EXCEPT
                        !.subtopics_by_formula =
                            MapInsert(@, formula_parsed[1], into(Subscription_default))]
        ELSE IF regex # None THEN
            LET compiled == Regex_new(regex[1])
            IN  IF compiled = None THEN subscription
                ELSE LET pos == RegexPosition(subscription.subtopics_by_regex, compiled[1])
                     IN  IF pos # 0
                         THEN [subscription EXCEPT !.subtopics_by_regex[pos].sub = into(@)]
                         ELSE [subscription EXCEPT
                                 !.subtopics_by_regex =
                                     Append(@, [regex |-> compiled[1],
                                                sub   |-> into(Subscription_default)])]
        ELSE IF topic \in DOMAIN subscription.subtopics THEN
            [subscription EXCEPT !.subtopics[topic] = into(@)]
        ELSE
            [subscription EXCEPT
                !.subtopics = MapInsert(@, topic, into(Subscription_default))]

RECURSIVE subscribe_rec(_, _, _, _, _, _, _)
subscribe_rec(subscription, sp, client, wildcard, match_any, formula_prefix, regex_prefix) ==
    IF sp = <<>> THEN [subscription EXCEPT !.subscribers = @ \cup {client}]
    ELSE
    LET topic   == Head(sp)
        rest    == Tail(sp)
        formula == and_then_strip_prefix(formula_prefix, topic)
        regex   == and_then_strip_prefix(regex_prefix, topic)
        into(sub) == subscribe_rec(sub, rest, client, wildcard, match_any,
                                   formula_prefix, regex_prefix)
    IN  IF topic \in wildcard THEN
            [subscription EXCEPT !.sub_any = @ \cup {client}]
        ELSE IF topic \in match_any THEN
            IF subscription.subtopics_any # None
            THEN [subscription EXCEPT !.subtopics_any = Some(into(@[1]))]
            ELSE [subscription EXCEPT !.subtopics_any = Some(into(Subscription_default))]
        ELSE IF formula # None THEN
            LET formula_parsed == Formula_from_str(formula[1])
            IN  IF formula_parsed = None THEN subscription
                ELSE IF formula_parsed[1] \in DOMAIN subscription.subtopics_by_formula
                THEN [subscription EXCEPT
                        !.subtopics_by_formula[formula_parsed[1]] = into(@)]
                ELSE [subscription EXCEPT
                        !.subtopics_by_formula =
                            MapInsert(@, formula_parsed[1], into(Subscription_default))]
        ELSE IF regex # None THEN
            LET compiled == Regex_new(regex[1])
            IN  IF compiled = None THEN subscription
                ELSE LET pos == RegexPosition(subscription.subtopics_by_regex, compiled[1])
                     IN  IF pos # 0
                         THEN [subscription EXCEPT !.subtopics_by_regex[pos].sub = into(@)]
                         ELSE [subscription EXCEPT
                                 !.subtopics_by_regex =
                                     Append(@, [regex |-> compiled[1],
                                                sub   |-> into(Subscription_default)])]
        ELSE IF topic \in DOMAIN subscription.subtopics THEN
            [subscription EXCEPT !.subtopics[topic] = into(@)]
        ELSE
            [subscription EXCEPT
                !.subtopics = MapInsert(@, topic, into(Subscription_default))]

RECURSIVE unsubscribe_rec_no_prune(_, _, _, _, _, _, _)
\* unsubscribe_rec without the removal of a literal child that became empty
unsubscribe_rec_no_prune(subscription, sp, client, wildcard, match_any, formula_prefix, regex_prefix) ==
    IF sp = <<>> THEN [subscription EXCEPT !.subscribers = @ \ {client}]
    ELSE
    LET topic   == Head(sp)
        rest    == Tail(sp)
        formula == and_then_strip_prefix(formula_prefix, topic)
        regex   == and_then_strip_prefix(regex_prefix, topic)
        into(sub) == unsubscribe_rec_no_prune(sub, rest, client, wildcard, match_any,
                                     formula_prefix, regex_prefix)
    IN  IF topic \in wildcard THEN
            [subscription EXCEPT !.sub_any = @ \ {client}]
        ELSE IF topic \in match_any THEN
            IF subscription.subtopics_any # None
            THEN LET sub == into(subscription.subtopics_any[1])
                 IN  IF Subscription_is_empty(sub)
                     THEN [subscription EXCEPT !.subtopics_any = None]
                     ELSE [subscription EXCEPT !.subtopics_any = Some(sub)]
            ELSE subscription
        ELSE IF formula # None THEN
            LET formula_parsed == Formula_from_str(formula[1])
            IN  IF formula_parsed = None THEN subscription
                ELSE IF formula_parsed[1] \in DOMAIN subscription.subtopics_by_formula
                THEN LET sub == into(subscription.subtopics_by_formula[formula_parsed[1]])
                     IN  IF Subscription_is_empty(sub)
                         THEN [subscription EXCEPT
                                 !.subtopics_by_formula = MapRemove(@, formula_parsed[1])]
                         ELSE [subscription EXCEPT
                                 !.subtopics_by_formula[formula_parsed[1]] = sub]
                ELSE subscription
        ELSE IF regex # None THEN
            LET compiled == Regex_new(regex[1])
            IN  IF compiled = None THEN subscription
                ELSE LET pos == RegexPosition(subscription.subtopics_by_regex, compiled[1])
                     IN  IF pos # 0
                         THEN LET sub == into(subscription.subtopics_by_regex[pos].sub)
                              IN  IF Subscription_is_empty(sub)
                                  THEN [subscription EXCEPT
                                          !.subtopics_by_regex = VecRemove(@, pos)]
                                  ELSE [subscription EXCEPT
                                          !.subtopics_by_regex[pos].sub = sub]
                         ELSE subscription
        ELSE IF topic \in DOMAIN subscription.subtopics THEN
            [subscription EXCEPT !.subtopics[topic] = into(@)]
        ELSE subscription

RECURSIVE unsubscribe_rec(_, _, _, _, _, _, _)
unsubscribe_rec(subscription, sp, client, wildcard, match_any, formula_prefix, regex_prefix) ==
    IF sp = <<>> THEN [subscription EXCEPT !.subscribers = @ \ {client}]
    ELSE
    LET topic   == Head(sp)
        rest    == Tail(sp)
        formula == and_then_strip_prefix(formula_prefix, topic)
        regex   == and_then_strip_prefix(regex_prefix, topic)
        into(sub) == unsubscribe_rec(sub, rest, client, wildcard, match_any,
                                     formula_prefix, regex_prefix)
    IN  IF topic \in wildcard THEN
            [subscription EXCEPT !.sub_any = @ \ {client}]
        ELSE IF topic \in match_any THEN
            IF subscription.subtopics_any # None
            THEN LET sub == into(subscription.subtopics_any[1])
                 IN  IF Subscription_is_empty(sub)
                     THEN [subscription EXCEPT !.subtopics_any = None]
                     ELSE [subscription EXCEPT !.subtopics_any = Some(sub)]
            ELSE subscription
        ELSE IF formula # None THEN
            LET formula_parsed == Formula_from_str(formula[1])
            IN  IF formula_parsed = None THEN subscription
                ELSE IF formula_parsed[1] \in DOMAIN subscription.subtopics_by_formula
                THEN LET sub == into(subscription.subtopics_by_formula[formula_parsed[1]])
                     IN  IF Subscription_is_empty(sub)
                         THEN [subscription EXCEPT
                                 !.subtopics_by_formula = MapRemove(@, formula_parsed[1])]
                         ELSE [subscription EXCEPT
                                 !.subtopics_by_formula[formula_parsed[1]] = sub]
                ELSE subscription
        ELSE IF regex # None THEN
            LET compiled == Regex_new(regex[1])
            IN  IF compiled = None THEN subscription
                ELSE LET pos == RegexPosition(subscription.subtopics_by_regex, compiled[1])
                     IN  IF pos # 0
                         THEN LET sub == into(subscription.subtopics_by_regex[pos].sub)
                              IN  IF Subscription_is_empty(sub)
                                  THEN [subscription EXCEPT
                                          !.subtopics_by_regex = VecRemove(@, pos)]
                                  ELSE [subscription EXCEPT
                                          !.subtopics_by_regex[pos].sub = sub]
                         ELSE subscription
        ELSE IF topic \in DOMAIN subscription.subtopics THEN
            LET sub == into(subscription.subtopics[topic])
            IN  IF Subscription_is_empty(sub)
                THEN [subscription EXCEPT !.subtopics = MapRemove(@, topic)]
                ELSE [subscription EXCEPT !.subtopics[topic] = sub]
        ELSE subscription

RECURSIVE get_subscribers_rec_wildcard_at_end(_, _, _, _)
\* get_subscribers_rec that adds the wildcard members of the node where the
\* topic ends
get_subscribers_rec_wildcard_at_end(subscription, sp, formula_prefix, regex_prefix) ==
    IF sp = <<>> THEN subscription.subscribers \cup subscription.sub_any
    ELSE
    LET topic   == Head(sp)
        rest    == Tail(sp)
        formula == and_then_strip_prefix(formula_prefix, topic)
        regex   == and_then_strip_prefix(regex_prefix, topic)
        from(sub) == get_subscribers_rec_wildcard_at_end(sub, rest, formula_prefix, regex_prefix)
        names   == DOMAIN subscription.subtopics
        by_name ==
            IF formula # None THEN
                UNION {from(subscription.subtopics[name]) :
                         name \in keys_match_formula(names, formula[1])}
            ELSE IF regex # None THEN
                LET compiled == Regex_new(regex[1])
                IN  IF compiled = None THEN {}
                    ELSE UNION {from(subscription.subtopics[name]) :
                                  name \in {n \in names : Regex_is_match(compiled[1], n)}}
            ELSE IF topic \in names THEN from(subscription.subtopics[topic])
            ELSE {}
        by_formula ==
            UNION {from(subscription.subtopics_by_formula[f]) :
                     f \in {g \in DOMAIN subscription.subtopics_by_formula :
                              Formula_matches(g, topic)}}
        by_regex ==
            UNION {from(subscription.subtopics_by_regex[i].sub) :
                     i \in {j \in 1..Len(subscription.subtopics_by_regex) :
                              Regex_is_match(subscription.subtopics_by_regex[j].regex, topic)}}
        by_any ==
            IF subscription.subtopics_any # None
            THEN from(subscription.subtopics_any[1])
            ELSE {}
    IN  subscription.sub_any \cup by_name \cup by_formula \cup by_regex \cup by_any

RECURSIVE get_subscribers_rec_any_skips(_, _, _, _)
\* get_subscribers_rec whose match-any child may also consume no segment
get_subscribers_rec_any_skips(subscription, sp, formula_prefix, regex_prefix) ==
    IF sp = <<>> THEN subscription.subscribers
    ELSE
    LET topic   == Head(sp)
        rest    == Tail(sp)
        formula == and_then_strip_prefix(formula_prefix, topic)
        regex   == and_then_strip_prefix(regex_prefix, topic)
        from(sub) == get_subscribers_rec_any_skips(sub, rest, formula_prefix, regex_prefix)
        names   == DOMAIN subscription.subtopics
        by_name ==
            IF formula # None THEN
                UNION {from(subscription.subtopics[name]) :
                         name \in keys_match_formula(names, formula[1])}
            ELSE IF regex # None THEN
                LET compiled == Regex_new(regex[1])
                IN  IF compiled = None THEN {}
                    ELSE UNION {from(subscription.subtopics[name]) :
                                  name \in {n \in names : Regex_is_match(compiled[1], n)}}
            ELSE IF topic \in names THEN from(subscription.subtopics[topic])
            ELSE {}
        by_formula ==
            UNION {from(subscription.subtopics_by_formula[f]) :
                     f \in {g \in DOMAIN subscription.subtopics_by_formula :
                              Formula_matches(g, topic)}}
        by_regex ==
            UNION {from(subscription.subtopics_by_regex[i].sub) :
                     i \in {j \in 1..Len(subscription.subtopics_by_regex) :
                              Regex_is_match(subscription.subtopics_by_regex[j].regex, topic)}}
        by_any ==
            IF subscription.subtopics_any # None
            THEN from(subscription.subtopics_any[1])
                   \cup get_subscribers_rec_any_skips(subscription.subtopics_any[1], sp,
                                                       formula_prefix, regex_prefix)
            ELSE {}
    IN  subscription.sub_any \cup by_name \cup by_formula \cup by_regex \cup by_any

RECURSIVE get_subscribers_rec_no_wildcard_members(_, _, _, _)
\* get_subscribers_rec that never adds the wildcard members of a node
get_subscribers_rec_no_wildcard_members(subscription, sp, formula_prefix, regex_prefix) ==
    IF sp = <<>> THEN subscription.subscribers
    ELSE
    LET topic   == Head(sp)
        rest    == Tail(sp)
        formula == and_then_strip_prefix(formula_prefix, topic)
        regex   == and_then_strip_prefix(regex_prefix, topic)
        from(sub) == get_subscribers_rec_no_wildcard_members(sub, rest, formula_prefix, regex_prefix)
        names   == DOMAIN subscription.subtopics
        by_name ==
            IF formula # None THEN
                UNION {from(subscription.subtopics[name]) :
                         name \in keys_match_formula(names, formula[1])}
            ELSE IF regex # None THEN
                LET compiled == Regex_new(regex[1])
                IN  IF compiled = None THEN {}
                    ELSE UNION {from(subscription.subtopics[name]) :
                                  name \in {n \in names : Regex_is_match(compiled[1], n)}}
            ELSE IF topic \in names THEN from(subscription.subtopics[topic])
            ELSE {}
        by_formula ==
            UNION {from(subscription.subtopics_by_formula[f]) :
                     f \in {g \in DOMAIN subscription.subtopics_by_formula :
                              Formula_matches(g, topic)}}
        by_regex ==
            UNION {from(subscription.subtopics_by_regex[i].sub) :
                     i \in {j \in 1..Len(subscription.subtopics_by_regex) :
                              Regex_is_match(subscription.subtopics_by_regex[j].regex, topic)}}
        by_any ==
            IF subscription.subtopics_any # None
            THEN from(subscription.subtopics_any[1])
            ELSE {}
    IN  by_name \cup by_formula \cup by_regex \cup by_any

RECURSIVE get_subscribers_rec(_, _, _, _)
\* The accumulator `result` of the code is the returned set.
get_subscribers_rec(subscription, sp, formula_prefix, regex_prefix) ==
    IF sp = <<>> THEN subscription.subscribers
    ELSE
    LET topic   == Head(sp)
        rest    == Tail(sp)
        formula == and_then_strip_prefix(formula_prefix, topic)
        regex   == and_then_strip_prefix(regex_prefix, topic)
        from(sub) == get_subscribers_rec(sub, rest, formula_prefix, regex_prefix)
        names   == DOMAIN subscription.subtopics
        by_name ==
            IF formula # None THEN
                UNION {from(subscription.subtopics[name]) :
                         name \in keys_match_formula(names, formula[1])}
            ELSE IF regex # None THEN
                LET compiled == Regex_new(regex[1])
                IN  IF compiled = None THEN {}
                    ELSE UNION {from(subscription.subtopics[name]) :
                                  name \in {n \in names : Regex_is_match(compiled[1], n)}}
            ELSE IF topic \in names THEN from(subscription.subtopics[topic])
            ELSE {}
        by_formula ==
            UNION {from(subscription.subtopics_by_formula[f]) :
                     f \in {g \in DOMAIN subscription.subtopics_by_formula :
                              Formula_matches(g, topic)}}
        by_regex ==
            UNION {from(subscription.subtopics_by_regex[i].sub) :
                     i \in {j \in 1..Len(subscription.subtopics_by_regex) :
                              Regex_is_match(subscription.subtopics_by_regex[j].regex, topic)}}
        by_any ==
            IF subscription.subtopics_any # None
            THEN from(subscription.subtopics_any[1])
            ELSE {}
    IN  subscription.sub_any \cup by_name \cup by_formula \cup by_regex \cup by_any

RECURSIVE is_subscribed_rec_no_wildcard(_, _, _, _)
\* is_subscribed_rec without the test of the node's wildcard members
is_subscribed_rec_no_wildcard(subscription, formula_prefix, regex_prefix, sp) ==
    IF sp = <<>> THEN subscription.subscribers # {}
    ELSE
    LET topic   == Head(sp)
        rest    == Tail(sp)
        formula == and_then_strip_prefix(formula_prefix, topic)
        regex   == and_then_strip_prefix(regex_prefix, topic)
        in(sub) == is_subscribed_rec_no_wildcard(sub, formula_prefix, regex_prefix, rest)
        names   == DOMAIN subscription.subtopics
        by_name ==
            IF formula # None THEN
                \E name \in keys_match_formula(names, formula[1]) :
                    in(subscription.subtopics[name])
            ELSE IF regex # None THEN
                LET compiled == Regex_new(regex[1])
                IN  /\ compiled # None
                    /\ \E name \in names :
                         Regex_is_match(compiled[1], name) /\ in(subscription.subtopics[name])
            ELSE topic \in names /\ in(subscription.subtopics[topic])
        by_formula ==
            \E f \in DOMAIN subscription.subtopics_by_formula :
                Formula_matches(f, topic) /\ in(subscription.subtopics_by_formula[f])
        by_regex ==
            \E i \in 1..Len(subscription.subtopics_by_regex) :
                /\ Regex_is_match(subscription.subtopics_by_regex[i].regex, topic)
                /\ in(subscription.subtopics_by_regex[i].sub)
        by_any ==
            subscription.subtopics_any # None /\ in(subscription.subtopics_any[1])
    IN  by_name \/ by_formula \/ by_regex \/ by_any

RECURSIVE is_subscribed_rec(_, _, _, _)
is_subscribed_rec(subscription, formula_prefix, regex_prefix, sp) ==
    IF sp = <<>> THEN subscription.subscribers # {}
    ELSE
    LET topic   == Head(sp)
        rest    == Tail(sp)
        formula == and_then_strip_prefix(formula_prefix, topic)
        regex   == and_then_strip_prefix(regex_prefix, topic)
        in(sub) == is_subscribed_rec(sub, formula_prefix, regex_prefix, rest)
        names   == DOMAIN subscription.subtopics
        by_name ==
            IF formula # None THEN
                \E name \in keys_match_formula(names, formula[1]) :
                    in(subscription.subtopics[name])
            ELSE IF regex # None THEN
                LET compiled == Regex_new(regex[1])
                IN  /\ compiled # None
                    /\ \E name \in names :
                         Regex_is_match(compiled[1], name) /\ in(subscription.subtopics[name])
            ELSE topic \in names /\ in(subscription.subtopics[topic])
        by_formula ==
            \E f \in DOMAIN subscription.subtopics_by_formula :
                Formula_matches(f, topic) /\ in(subscription.subtopics_by_formula[f])
        by_regex ==
            \E i \in 1..Len(subscription.subtopics_by_regex) :
                /\ Regex_is_match(subscription.subtopics_by_regex[i].regex, topic)
                /\ in(subscription.subtopics_by_regex[i].sub)
        by_any ==
            subscription.subtopics_any # None /\ in(subscription.subtopics_any[1])
    IN  subscription.sub_any # {} \/ by_name \/ by_formula \/ by_regex \/ by_any

\* ------------------------------------------------------------------------
\* submap.rs: SubMap
\* ------------------------------------------------------------------------

\* impl Default for SubMap / SubMap::new
SubMap_default ==
    [subscriptions      |-> Subscription_default,
     subscribed_topics  |-> EmptyMap,
     subscription_count |-> 0,
     separator          |-> "/",
     formula_prefix     |-> None,
     regex_prefix       |-> None,
     match_any          |-> {<<"?">>},
     wildcard           |-> {<<"*">>}]

SubMap_separator(self, sep) == [self EXCEPT !.separator = sep]

SubMap_formula_prefix(self, prefix) == [self EXCEPT !.formula_prefix = Some(prefix)]

SubMap_regex_prefix(self, prefix) == [self EXCEPT !.regex_prefix = Some(prefix)]

SubMap_wildcard(self, token) == [self EXCEPT !.wildcard = {token}]

SubMap_match_any(self, token) == [self EXCEPT !.match_any = {token}]

SubMap_wildcard_multiple(self, tokens) == [self EXCEPT !.wildcard = tokens]

SubMap_match_any_multiple(self, tokens) == [self EXCEPT !.match_any = tokens]

SubMap_list_clients(self) == DOMAIN self.subscribed_topics

SubMap_list_topics(self, client) ==
    IF client \in DOMAIN self.subscribed_topics
    THEN self.subscribed_topics[client]
    ELSE {}

SubMap_subscription_count(self) == self.subscription_count

\* register_client that inserts a fresh entry whether or not one exists
SubMap_register_client_overwrite(self, client) ==
    [self |-> [self EXCEPT !.subscribed_topics = MapInsert(@, client, {})],
     ret  |-> TRUE]

SubMap_register_client(self, client) ==
    IF client \in DOMAIN self.subscribed_topics
    THEN [self |-> self, ret |-> FALSE]
    ELSE [self |-> [self EXCEPT !.subscribed_topics = MapInsert(@, client, {})],
          ret  |-> TRUE]

RECURSIVE UnsubscribeEach_no_decrement(_, _, _)
\* UnsubscribeEach with the `subscription_count -= 1` of the loop body left out
UnsubscribeEach_no_decrement(self, order, client) ==
    IF order = <<>> THEN self
    ELSE UnsubscribeEach_no_decrement(
            [self EXCEPT
                !.subscriptions =
                    unsubscribe_rec(@, Split(Head(order), self.separator), client,
                                    self.wildcard, self.match_any,
                                    self.formula_prefix, self.regex_prefix)],
            Tail(order), client)

\* One pass of `for topic in client_topics { unsubscribe_rec(..); count -= 1 }`
\* over the topics in iteration order `order`.
RECURSIVE UnsubscribeEach(_, _, _)
UnsubscribeEach(self, order, client) ==
    IF order = <<>> THEN self
    ELSE UnsubscribeEach(
            [self EXCEPT
                !.subscriptions =
                    unsubscribe_rec(@, Split(Head(order), self.separator), client,
                                    self.wildcard, self.match_any,
                                    self.formula_prefix, self.regex_prefix),
                !.subscription_count = @ - 1],
            Tail(order), client)

\* The iteration orders of a set of topics (the set type fixes none here).
RECURSIVE Orders(_)
Orders(S) ==
    IF S = {} THEN {<<>>}
    ELSE UNION {{<<x>> \o o : o \in Orders(S \ {x})} : x \in S}

\* unregister_client that drops the client's entry and its count but leaves
\* the trie alone
SubMap_unregister_client_index_only(self, client, order) ==
    IF client \in DOMAIN self.subscribed_topics
    THEN [self |-> [self EXCEPT !.subscribed_topics = MapRemove(@, client),
                                !.subscription_count = @ - Len(order)],
          ret  |-> TRUE]
    ELSE [self |-> self, ret |-> FALSE]

SubMap_unregister_client(self, client, order) ==
    IF client \in DOMAIN self.subscribed_topics
    THEN [self |-> UnsubscribeEach(
                      [self EXCEPT !.subscribed_topics = MapRemove(@, client)],
                      order, client),
          ret  |-> TRUE]
    ELSE [self |-> self, ret |-> FALSE]

\* subscribe that creates the entry of a client that is not registered
SubMap_subscribe_autoregister(self, topic, client) ==
    IF topic \notin SubMap_list_topics(self, client)
    THEN [self |-> [self EXCEPT
                      !.subscriptions =
                          subscribe_rec(@, Split(topic, self.separator), client,
                                        self.wildcard, self.match_any,
                                        self.formula_prefix, self.regex_prefix),
                      !.subscribed_topics =
                          MapInsert(@, client, SubMap_list_topics(self, client) \cup {topic}),
                      !.subscription_count = @ + 1],
          ret  |-> TRUE]
    ELSE [self |-> self, ret |-> TRUE]

\* subscribe without the `!client_topics.contains(topic)` test
SubMap_subscribe_unchecked(self, topic, client) ==
    IF client \notin DOMAIN self.subscribed_topics
    THEN [self |-> self, ret |-> FALSE]
    ELSE [self |-> [self EXCEPT
                      !.subscriptions =
                          subscribe_rec(@, Split(topic, self.separator), client,
                                        self.wildcard, self.match_any,
                                        self.formula_prefix, self.regex_prefix),
                      !.subscribed_topics[client] = @ \cup {topic},
                      !.subscription_count = @ + 1],
          ret  |-> TRUE]

SubMap_subscribe(self, topic, client) ==
    IF client \notin DOMAIN self.subscribed_topics
    THEN [self |-> self, ret |-> FALSE]
    ELSE IF topic \notin self.subscribed_topics[client]
    THEN [self |-> [self EXCEPT
                      !.subscriptions =
                          subscribe_rec(@, Split(topic, self.separator), client,
                                        self.wildcard, self.match_any,
                                        self.formula_prefix, self.regex_prefix),
                      !.subscribed_topics[client] = @ \cup {topic},
                      !.subscription_count = @ + 1],
          ret  |-> TRUE]
    ELSE [self |-> self, ret |-> TRUE]

\* unsubscribe that updates the client's pattern set and the count but
\* leaves the trie alone
SubMap_unsubscribe_index_only(self, topic, client) ==
    IF client \notin DOMAIN self.subscribed_topics
    THEN [self |-> self, ret |-> FALSE]
    ELSE IF topic \in self.subscribed_topics[client]
    THEN [self |-> [self EXCEPT
                      !.subscribed_topics[client] = @ \ {topic},
                      !.subscription_count = @ - 1],
          ret  |-> TRUE]
    ELSE [self |-> self, ret |-> TRUE]

\* unsubscribe that walks the trie without looking the topic string up in the
\* client's topic set
SubMap_unsubscribe_unchecked(self, topic, client) ==
    IF client \notin DOMAIN self.subscribed_topics
    THEN [self |-> self, ret |-> FALSE]
    ELSE [self |-> [self EXCEPT
                      !.subscriptions =
                          unsubscribe_rec(@, Split(topic, self.separator), client,
                                          self.wildcard, self.match_any,
                                          self.formula_prefix, self.regex_prefix),
                      !.subscribed_topics[client] = @ \ {topic},
                      !.subscription_count =
                          IF topic \in self.subscribed_topics[client] THEN @ - 1 ELSE @],
          ret  |-> TRUE]

SubMap_unsubscribe(self, topic, client) ==
    IF client \notin DOMAIN self.subscribed_topics
    THEN [self |-> self, ret |-> FALSE]
    ELSE IF topic \in self.subscribed_topics[client]
    THEN [self |-> [self EXCEPT
                      !.subscriptions =
                          unsubscribe_rec(@, Split(topic, self.separator), client,
                                          self.wildcard, self.match_any,
                                          self.formula_prefix, self.regex_prefix),
                      !.subscribed_topics[client] = @ \ {topic},
                      !.subscription_count = @ - 1],
          ret  |-> TRUE]
    ELSE [self |-> self, ret |-> TRUE]

\* unsubscribe_all without the final `client_topics.clear()`
SubMap_unsubscribe_all_no_clear(self, client, order) ==
    IF client \in DOMAIN self.subscribed_topics
    THEN [self |-> UnsubscribeEach(self, order, client), ret |-> TRUE]
    ELSE [self |-> self, ret |-> FALSE]

SubMap_unsubscribe_all(self, client, order) ==
    IF client \in DOMAIN self.subscribed_topics
    THEN [self |-> [UnsubscribeEach(self, order, client) EXCEPT
                      !.subscribed_topics[client] = {}],
          ret  |-> TRUE]
    ELSE [self |-> self, ret |-> FALSE]

SubMap_get_subscribers(self, topic) ==
    get_subscribers_rec(self.subscriptions, Split(topic, self.separator),
                        self.formula_prefix, self.regex_prefix)

SubMap_is_subscribed(self, topic) ==
    is_subscribed_rec(self.subscriptions, self.formula_prefix, self.regex_prefix,
                      Split(topic, self.separator))

SubMap_is_empty(self) == DOMAIN self.subscribed_topics = {}

SubMap_client_count(self) == Cardinality(DOMAIN self.subscribed_topics)

\* ------------------------------------------------------------------------
\* broadcastmap.rs: Broadcast nodes and the BroadcastMap
\* ------------------------------------------------------------------------
Broadcast_default ==
    [childs           |-> EmptyMap,
     childs_any       |-> None,
     members          |-> {},
     members_wildcard |-> {}]

Broadcast_is_empty(broadcast) ==
    DOMAIN broadcast.childs = {} /\ broadcast.members = {}

RECURSIVE get_broadcast_clients_rec(_, _, _, _)
\* The accumulator `result` of the code is the returned set.
get_broadcast_clients_rec(broadcast, sp, wildcard, match_any) ==
    IF sp = <<>> THEN broadcast.members
    ELSE
    LET chunk == Head(sp)
    IN  IF chunk \in wildcard THEN broadcast.members_wildcard
        ELSE IF chunk \in match_any THEN
            IF broadcast.childs_any # None
            THEN get_broadcast_clients_rec(broadcast.childs_any[1], Tail(sp),
                                           wildcard, match_any)
            ELSE {}
        ELSE IF chunk \in DOMAIN broadcast.childs THEN
            get_broadcast_clients_rec(broadcast.childs[chunk], Tail(sp),
                                      wildcard, match_any)
        ELSE {}

RECURSIVE register_broadcast_client_rec_wildcard_at_end(_, _, _)
\* register_broadcast_client_rec that also makes the client a wildcard member
\* of the node of the name itself
register_broadcast_client_rec_wildcard_at_end(broadcast, sp, client) ==
    IF sp = <<>> THEN [broadcast EXCEPT !.members = @ \cup {client},
                                        !.members_wildcard = @ \cup {client}]
    ELSE
    LET chunk == Head(sp)
        into(b) == register_broadcast_client_rec_wildcard_at_end(b, Tail(sp), client)
        b1 == [broadcast EXCEPT !.members_wildcard = @ \cup {client}]
        b2 == IF chunk \in DOMAIN b1.childs
              THEN [b1 EXCEPT !.childs[chunk] = into(@)]
              ELSE [b1 EXCEPT !.childs = MapInsert(@, chunk, into(Broadcast_default))]
    IN  IF b2.childs_any # None
        THEN [b2 EXCEPT !.childs_any = Some(into(@[1]))]
        ELSE [b2 EXCEPT !.childs_any = Some(into(Broadcast_default))]

RECURSIVE register_broadcast_client_rec(_, _, _)
register_broadcast_client_rec(broadcast, sp, client) ==
    IF sp = <<>> THEN [broadcast EXCEPT !.members = @ \cup {client}]
    ELSE
    LET chunk == Head(sp)
        into(b) == register_broadcast_client_rec(b, Tail(sp), client)
        b1 == [broadcast EXCEPT !.members_wildcard = @ \cup {client}]
        b2 == IF chunk \in DOMAIN b1.childs
              THEN [b1 EXCEPT !.childs[chunk] = into(@)]
              ELSE [b1 EXCEPT !.childs = MapInsert(@, chunk, into(Broadcast_default))]
    IN  IF b2.childs_any # None
        THEN [b2 EXCEPT !.childs_any = Some(into(@[1]))]
        ELSE [b2 EXCEPT !.childs_any = Some(into(Broadcast_default))]

RECURSIVE unregister_broadcast_client_rec_no_prune(_, _, _)
\* unregister_broadcast_client_rec that keeps a literal child that became empty
unregister_broadcast_client_rec_no_prune(broadcast, sp, client) ==
    IF sp = <<>> THEN [broadcast EXCEPT !.members = @ \ {client}]
    ELSE
    LET chunk == Head(sp)
        into(b) == unregister_broadcast_client_rec_no_prune(b, Tail(sp), client)
        b1 == [broadcast EXCEPT !.members_wildcard = @ \ {client}]
        b2 == IF chunk \in DOMAIN b1.childs
              THEN [b1 EXCEPT !.childs[chunk] = into(@)]
              ELSE b1
    IN  IF b2.childs_any # None
        THEN LET c == into(b2.childs_any[1])
             IN  IF Broadcast_is_empty(c)
                 THEN [b2 EXCEPT !.childs_any = None]
                 ELSE [b2 EXCEPT !.childs_any = Some(c)]
        ELSE b2

RECURSIVE unregister_broadcast_client_rec(_, _, _)
unregister_broadcast_client_rec(broadcast, sp, client) ==
    IF sp = <<>> THEN [broadcast EXCEPT !.members = @ \ {client}]
    ELSE
    LET chunk == Head(sp)
        into(b) == unregister_broadcast_client_rec(b, Tail(sp), client)
        b1 == [broadcast EXCEPT !.members_wildcard = @ \ {client}]
        b2 == IF chunk \in DOMAIN b1.childs
              THEN LET c == into(b1.childs[chunk])
                   IN  IF Broadcast_is_empty(c)
                       THEN [b1 EXCEPT !.childs = MapRemove(@, chunk)]
                       ELSE [b1 EXCEPT !.childs[chunk] = c]
              ELSE b1
    IN  IF b2.childs_any # None
        THEN LET c == into(b2.childs_any[1])
             IN  IF Broadcast_is_empty(c)
                 THEN [b2 EXCEPT !.childs_any = None]
                 ELSE [b2 EXCEPT !.childs_any = Some(c)]
        ELSE b2

BroadcastMap_default ==
    [broadcasts |-> Broadcast_default,
     separator  |-> ".",
     match_any  |-> {<<"?">>},
     wildcard   |-> {<<"*">>}]

BroadcastMap_separator(self, sep) == [self EXCEPT !.separator = sep]

BroadcastMap_is_empty(self) == Broadcast_is_empty(self.broadcasts)

BroadcastMap_register_client(self, name, client) ==
    [self EXCEPT !.broadcasts =
        register_broadcast_client_rec(@, Split(name, self.separator), client)]

BroadcastMap_unregister_client(self, name, client) ==
    [self EXCEPT !.broadcasts =
        unregister_broadcast_client_rec(@, Split(name, self.separator), client)]

BroadcastMap_get_clients_by_mask(self, mask) ==
    get_broadcast_clients_rec(self.broadcasts, Split(mask, self.separator),
                              self.wildcard, self.match_any)

\* ------------------------------------------------------------------------
\* aclmap.rs: AclMap, a SubMap over the unit client
\* ------------------------------------------------------------------------
\* the value () of the unit type
Unit == "()"

\* #[derive(Default)]: the default of every field
AclMap_default == [smap |-> SubMap_default]

AclMap_new ==
    [AclMap_default EXCEPT !.smap = SubMap_register_client(@, Unit).self]

AclMap_separator(self, sep) == [self EXCEPT !.smap = SubMap_separator(@, sep)]

AclMap_wildcard(self, token) == [self EXCEPT !.smap = SubMap_wildcard(@, token)]

AclMap_match_any(self, token) == [self EXCEPT !.smap = SubMap_match_any(@, token)]

AclMap_wildcard_multiple(self, tokens) ==
    [self EXCEPT !.smap = SubMap_wildcard_multiple(@, tokens)]

AclMap_match_any_multiple(self, tokens) ==
    [self EXCEPT !.smap = SubMap_match_any_multiple(@, tokens)]

AclMap_insert(self, topic) ==
    [self EXCEPT !.smap = SubMap_subscribe(@, topic, Unit).self]

AclMap_matches(self, topic) == SubMap_is_subscribed(self.smap, topic)

AclMap_list(self) == SubMap_list_topics(self.smap, Unit)

AclMap_is_empty(self) == SubMap_is_empty(self.smap)

\* the record of `eval` before any formula evaluation
NoEval == [op |-> "none", formula |-> None, key |-> None, keys |-> {}, ret |-> None]

\* ------------------------------------------------------------------------
\* Inputs: clients, pattern strings, query topics, configurations
\* ------------------------------------------------------------------------
Clients == {"c1", "c2"}

\* a/b, a/#, a/#/b, +/~^b/!ge(2), a/!x, ~(
Patterns ==
    { <<"a", "/", "b">>,
      <<"a", "/", "#">>,
      <<"a", "/", "#", "/", "b">>,
      <<"+", "/", "~", "^", "b", "/", "!", "g", "e", "(", "2", ")">>,
      <<"a", "/", "!", "x">>,
      <<"~", "(">> }

\* concrete topics: "", a, a/b, a/x/b, x/b/2, x/b/1, a/bc/3, x/c/2
Topics ==
    { <<>>,
      <<"a">>,
      <<"a", "/", "b">>,
      <<"a", "/", "x", "/", "b">>,
      <<"x", "/", "b", "/", "2">>,
      <<"x", "/", "b", "/", "1">>,
      <<"a", "/", "b", "c", "/", "3">>,
      <<"x", "/", "c", "/", "2">> }

\* SubMap::new().match_any("+").wildcard("#").formula_prefix("!").regex_prefix("~"),
\* the configuration of the crate's tests with both prefixes enabled
MqttMap ==
    SubMap_regex_prefix(
        SubMap_formula_prefix(
            SubMap_wildcard(SubMap_match_any(SubMap_default, <<"+">>), <<"#">>),
            <<"!">>),
        <<"~">>)

Configs == {MqttMap}

\* Largest value of subscription_count in the model.
MaxSubscriptions == 3

\* ------------------------------------------------------------------------
\* State machine: one action per SubMap method call.  `last` records the
\* call that produced the current state: its name, its arguments, whether
\* the client held the topic string (for a call without topic: any topic
\* string) when it was called, and its return value.
\* ------------------------------------------------------------------------
Call(op, client, topic, held, ret) ==
    [op |-> op, client |-> client, topic |-> topic, held |-> held, ret |-> ret]

Init ==
    /\ smap \in Configs
    /\ last = Call("new", None, None, FALSE, TRUE)
    /\ bmap = BroadcastMap_default
    /\ registered = {}
    /\ acl = AclMap_default
    /\ inserted = {}
    /\ eval = NoEval

Register(c) ==
    LET r == SubMap_register_client(smap, c)
    IN  /\ smap' = r.self
        /\ last' = Call("register_client", Some(c), None, FALSE, r.ret)
        /\ UNCHANGED <<bmap, registered, acl, inserted, eval>>

Unregister(c) ==
    \E order \in Orders(SubMap_list_topics(smap, c)) :
        LET r == SubMap_unregister_client(smap, c, order)
        IN  /\ smap' = r.self
            /\ last' = Call("unregister_client", Some(c), None,
                            SubMap_list_topics(smap, c) # {}, r.ret)
            /\ UNCHANGED <<bmap, registered, acl, inserted, eval>>

Subscribe(c, p) ==
    LET r == SubMap_subscribe(smap, p, c)
    IN  /\ r.self.subscription_count <= MaxSubscriptions
        /\ smap' = r.self
        /\ last' = Call("subscribe", Some(c), Some(p),
                        p \in SubMap_list_topics(smap, c), r.ret)
        /\ UNCHANGED <<bmap, registered, acl, inserted, eval>>

Unsubscribe(c, p) ==
    LET r == SubMap_unsubscribe(smap, p, c)
    IN  /\ smap' = r.self
        /\ last' = Call("unsubscribe", Some(c), Some(p),
                        p \in SubMap_list_topics(smap, c), r.ret)
        /\ UNCHANGED <<bmap, registered, acl, inserted, eval>>

UnsubscribeAll(c) ==
    \E order \in Orders(SubMap_list_topics(smap, c)) :
        LET r == SubMap_unsubscribe_all(smap, c, order)
        IN  /\ smap' = r.self
            /\ last' = Call("unsubscribe_all", Some(c), None,
                            SubMap_list_topics(smap, c) # {}, r.ret)
            /\ UNCHANGED <<bmap, registered, acl, inserted, eval>>

Next ==
    \/ \E c \in Clients : Register(c)
    \/ \E c \in Clients : Unregister(c)
    \/ \E c \in Clients, p \in Patterns : Subscribe(c, p)
    \/ \E c \in Clients, p \in Patterns : Unsubscribe(c, p)
    \/ \E c \in Clients : UnsubscribeAll(c)

Spec == Init /\ [][Next]_vars

\* ------------------------------------------------------------------------
\* Vocabulary of the properties
\* ------------------------------------------------------------------------

\* pattern p matches topic t: a map configured as `self` in which one client
\* holds only p returns that client for t
PatternMatches(self, p, t) ==
    "probe" \in get_subscribers_rec(
                    subscribe_rec(Subscription_default, Split(p, self.separator), "probe",
                                  self.wildcard, self.match_any,
                                  self.formula_prefix, self.regex_prefix),
                    Split(t, self.separator), self.formula_prefix, self.regex_prefix)

\* the topics of Topics that pattern p matches under the configuration of
\* the reachable maps (the configuration never changes after construction)
MatchedTopics ==
    [cfg \in Configs |-> [p \in Patterns |-> {t \in Topics : PatternMatches(cfg, p, t)}]]

ConfigOf(self) ==
    CHOOSE cfg \in Configs :
        /\ cfg.separator = self.separator
        /\ cfg.wildcard = self.wildcard
        /\ cfg.match_any = self.match_any
        /\ cfg.formula_prefix = self.formula_prefix
        /\ cfg.regex_prefix = self.regex_prefix

Matched(p) == MatchedTopics[ConfigOf(smap)][p]

RECURSIVE TrieClients(_)
\* every client that is a member (exact or wildcard) of some node of the trie
TrieClients(sub) ==
    sub.subscribers \cup sub.sub_any
      \cup UNION {TrieClients(sub.subtopics[k]) : k \in DOMAIN sub.subtopics}
      \cup UNION {TrieClients(sub.subtopics_by_formula[k]) :
                    k \in DOMAIN sub.subtopics_by_formula}
      \cup UNION {TrieClients(sub.subtopics_by_regex[i].sub) :
                    i \in 1..Len(sub.subtopics_by_regex)}
      \cup (IF sub.subtopics_any # None THEN TrieClients(sub.subtopics_any[1]) ELSE {})

RECURSIVE SumTopics(_, _)
\* the sum over the clients of S of the number of patterns each holds
SumTopics(self, S) ==
    IF S = {} THEN 0
    ELSE LET c == CHOOSE x \in S : TRUE
         IN  Cardinality(SubMap_list_topics(self, c)) + SumTopics(self, S \ {c})

\* a segment of p carries the formula prefix and does not parse, or carries
\* the regex prefix and does not compile (tokens are recognised first, the
\* formula prefix before the regex prefix, as in subscribe_rec)
BadSegment(self, seg) ==
    /\ seg \notin self.wildcard
    /\ seg \notin self.match_any
    /\ LET formula == and_then_strip_prefix(self.formula_prefix, seg)
           regex   == and_then_strip_prefix(self.regex_prefix, seg)
       IN  IF formula # None THEN Formula_from_str(formula[1]) = None
           ELSE regex # None /\ Regex_new(regex[1]) = None

BadPattern(self, p) ==
    LET sp == Split(p, self.separator)
    IN  \E i \in 1..Len(sp) : BadSegment(self, sp[i])

\* what a caller can observe of a map
Observable(self) ==
    [subscribers        |-> [t \in Topics |-> SubMap_get_subscribers(self, t)],
     subscribed_topics  |-> self.subscribed_topics,
     subscription_count |-> SubMap_subscription_count(self)]

\* ------------------------------------------------------------------------
\* Properties
\* ------------------------------------------------------------------------

\* C1: every registered client is returned for every topic matched by a
\* pattern it holds, and every client returned for a topic is registered and
\* holds a pattern that matches the topic.
C1_ReverseIndexConsistency ==
    /\ \A c \in SubMap_list_clients(smap) :
         \A p \in SubMap_list_topics(smap, c) :
           \A t \in Matched(p) : c \in SubMap_get_subscribers(smap, t)
    /\ \A t \in Topics :
         \A c \in SubMap_get_subscribers(smap, t) :
           /\ c \in SubMap_list_clients(smap)
           /\ \E p \in SubMap_list_topics(smap, c) : t \in Matched(p)

\* C2: subscription_count is the sum over the registered clients of the
\* number of patterns they hold, and it never goes below zero.
C2_CountConsistency ==
    /\ SubMap_subscription_count(smap) = SumTopics(smap, SubMap_list_clients(smap))
    /\ SubMap_subscription_count(smap) >= 0

C2_Witness ==
    /\ last.op \in {"unregister_client", "unsubscribe_all"}
    /\ last.held
    /\ SubMap_subscription_count(smap) >= 1

\* C3: right after subscribe(p, c) returned true, c is returned for every
\* topic that p matches.
C3_SubscribeThenReturned ==
    (last.op = "subscribe" /\ last.ret) =>
        \A t \in Matched(last.topic[1]) :
            last.client[1] \in SubMap_get_subscribers(smap, t)

\* C4: right after unsubscribe(p, c) of a pattern c held, c is not returned
\* for a topic matched by p unless c still holds a pattern matching it.
C4_UnsubscribeThenNotReturned ==
    (last.op = "unsubscribe" /\ last.held) =>
        \A t \in Matched(last.topic[1]) :
            (\A q \in SubMap_list_topics(smap, last.client[1]) : t \notin Matched(q))
                => last.client[1] \notin SubMap_get_subscribers(smap, t)

C4_Witness ==
    /\ last.op = "unsubscribe"
    /\ last.held
    /\ SubMap_list_topics(smap, last.client[1]) # {}
    /\ \E t \in Matched(last.topic[1]) :
         /\ \A q \in SubMap_list_topics(smap, last.client[1]) : t \notin Matched(q)
         /\ SubMap_get_subscribers(smap, t) # {}

\* C5: unregister_client(c) returns true exactly when c was registered;
\* afterwards c is no registered client, holds no pattern and is a member of
\* no trie node (so no query returns it); a register_client(c) that succeeds
\* starts c with no pattern and in no trie node.
C5_UnregisterRemovesClient ==
    [][ /\ last'.op = "unregister_client" =>
             /\ last'.ret <=> (last'.client[1] \in SubMap_list_clients(smap))
             /\ last'.client[1] \notin SubMap_list_clients(smap')
             /\ SubMap_list_topics(smap', last'.client[1]) = {}
             /\ last'.client[1] \notin TrieClients(smap'.subscriptions)
             /\ \A t \in Topics : last'.client[1] \notin SubMap_get_subscribers(smap', t)
        /\ (last'.op = "register_client" /\ last'.ret) =>
             /\ SubMap_list_topics(smap', last'.client[1]) = {}
             /\ last'.client[1] \notin TrieClients(smap'.subscriptions)
             /\ \A t \in Topics : last'.client[1] \notin SubMap_get_subscribers(smap', t)
      ]_vars

C5_Witness ==
    /\ last.op = "unregister_client"
    /\ last.ret
    /\ last.held
    /\ TrieClients(smap.subscriptions) # {}

\* C6: subscribe, unsubscribe and unsubscribe_all for a client that is not
\* registered return false and change nothing.
C6_UnregisteredIsNoop ==
    [][ (/\ last'.op \in {"subscribe", "unsubscribe", "unsubscribe_all"}
         /\ last'.client[1] \notin SubMap_list_clients(smap))
            => (~last'.ret /\ smap' = smap)
      ]_vars

C6_Witness ==
    /\ last.op \in {"subscribe", "unsubscribe", "unsubscribe_all"}
    /\ ~last.ret
    /\ last.client[1] \notin SubMap_list_clients(smap)
    /\ SubMap_subscription_count(smap) >= 1

\* C7: subscribing a registered client with a pattern that has an
\* unparseable formula segment or an uncompilable regex segment leaves the
\* trie, the client's patterns and subscription_count as they were.
C7_BadPatternIsNoop ==
    [][ (/\ last'.op = "subscribe"
         /\ last'.client[1] \in SubMap_list_clients(smap)
         /\ BadPattern(smap, last'.topic[1]))
            => /\ smap'.subscriptions = smap.subscriptions
               /\ SubMap_list_topics(smap', last'.client[1])
                    = SubMap_list_topics(smap, last'.client[1])
               /\ SubMap_subscription_count(smap') = SubMap_subscription_count(smap)
      ]_vars

\* C8: for a registered client c and a pattern p it does not hold,
\* subscribe(p, c) followed by unsubscribe(p, c) gives back the map as it was.
C8_SubscribeUnsubscribeRoundTrip ==
    \A c \in SubMap_list_clients(smap) :
      \A p \in Patterns \ SubMap_list_topics(smap, c) :
        SubMap_unsubscribe(SubMap_subscribe(smap, p, c).self, p, c).self = smap

\* C9: subscribe(p, c) of a pattern c already holds returns true and changes
\* nothing.
C9_DuplicateSubscribeIsNoop ==
    [][ (last'.op = "subscribe" /\ last'.held) => (last'.ret /\ smap' = smap) ]_vars

C9_Witness ==
    /\ last.op = "subscribe"
    /\ last.held
    /\ last.ret
    /\ SubMap_subscription_count(smap) >= 2

\* subscribe/unsubscribe calls as values
Ops == [kind : {"subscribe", "unsubscribe"}, client : Clients, topic : Patterns]

Apply(self, o) ==
    IF o.kind = "subscribe"
    THEN SubMap_subscribe(self, o.topic, o.client).self
    ELSE SubMap_unsubscribe(self, o.topic, o.client).self

\* C10: two subscribe/unsubscribe calls on different (client, pattern) pairs
\* give the same observable map in either order, from every reachable map
\* (so any two interleavings that keep each pair's own calls in order, which
\* differ by such swaps, end in the same state).
C10_IndependentCallsCommute ==
    \A o1, o2 \in Ops :
        (o1.client # o2.client \/ o1.topic # o2.topic) =>
            Observable(Apply(Apply(smap, o1), o2)) = Observable(Apply(Apply(smap, o2), o1))


\* C30: when a client c holds two different pattern strings p and q,
\* unsubscribe(p, c) does not remove c from get_subscribers(t) for any topic
\* t that q matches: a client returned for such a topic before the call is
\* returned for it after the call.
C30_UnsubscribeKeepsOtherPatterns ==
    [][ (last'.op = "unsubscribe" /\ last'.held) =>
            LET c == last'.client[1]
                p == last'.topic[1]
            IN  \A q \in SubMap_list_topics(smap, c) \ {p} :
                  \A t \in Matched(q) :
                    c \in SubMap_get_subscribers(smap, t)
                        => c \in SubMap_get_subscribers(smap', t)
      ]_vars

\* the kind of trie edge that subscribe_rec takes for a pattern segment
SegmentKind(self, seg) ==
    IF seg \in self.wildcard THEN "wildcard"
    ELSE IF seg \in self.match_any THEN "any"
    ELSE IF and_then_strip_prefix(self.formula_prefix, seg) # None THEN "formula"
    ELSE IF and_then_strip_prefix(self.regex_prefix, seg) # None THEN "regex"
    ELSE "literal"

RECURSIVE WalkReaches(_, _, _, _)
\* walking from the node along the pattern segments sp, by the edges that
\* subscribe_rec takes, reaches a node that has client c in its members, or
\* in its wildcard members when the walk ends at a wildcard token
WalkReaches(self, node, sp, c) ==
    IF sp = <<>> THEN c \in node.subscribers
    ELSE
    LET topic == Head(sp)
        rest  == Tail(sp)
        kind  == SegmentKind(self, topic)
    IN  CASE kind = "wildcard" -> c \in node.sub_any
          [] kind = "any" ->
                /\ node.subtopics_any # None
                /\ WalkReaches(self, node.subtopics_any[1], rest, c)
          [] kind = "formula" ->
                LET f == Formula_from_str(and_then_strip_prefix(self.formula_prefix, topic)[1])
                IN  /\ f # None
                    /\ f[1] \in DOMAIN node.subtopics_by_formula
                    /\ WalkReaches(self, node.subtopics_by_formula[f[1]], rest, c)
          [] kind = "regex" ->
                LET r == Regex_new(and_then_strip_prefix(self.regex_prefix, topic)[1])
                IN  /\ r # None
                    /\ RegexPosition(node.subtopics_by_regex, r[1]) # 0
                    /\ WalkReaches(self,
                           node.subtopics_by_regex[RegexPosition(node.subtopics_by_regex, r[1])].sub,
                           rest, c)
          [] kind = "literal" ->
                /\ topic \in DOMAIN node.subtopics
                /\ WalkReaches(self, node.subtopics[topic], rest, c)

\* the walks <<client, remaining segments>> of `walks` that go on by an edge
\* of the given kind, one segment further
WalksBy(self, walks, kind) ==
    {w \in walks : w[2] # <<>> /\ SegmentKind(self, Head(w[2])) = kind}

Advance(walks) == {<<w[1], Tail(w[2])>> : w \in walks}

RECURSIVE MembersHeld(_, _, _)
\* every member and every wildcard member of the node and of the nodes
\* below it is the client of a walk that ends there; `walks` are the walks
\* of the held patterns that have reached the node
MembersHeld(self, node, walks) ==
    /\ \A c \in node.subscribers : <<c, <<>>>> \in walks
    /\ \A c \in node.sub_any : \E w \in WalksBy(self, walks, "wildcard") : w[1] = c
    /\ node.subtopics_any # None =>
          MembersHeld(self, node.subtopics_any[1], Advance(WalksBy(self, walks, "any")))
    /\ \A f \in DOMAIN node.subtopics_by_formula :
          MembersHeld(self, node.subtopics_by_formula[f],
              Advance({w \in WalksBy(self, walks, "formula") :
                  Formula_from_str(and_then_strip_prefix(self.formula_prefix, Head(w[2]))[1])
                      = Some(f)}))
    /\ \A i \in 1..Len(node.subtopics_by_regex) :
          MembersHeld(self, node.subtopics_by_regex[i].sub,
              Advance({w \in WalksBy(self, walks, "regex") :
                  LET r == Regex_new(and_then_strip_prefix(self.regex_prefix, Head(w[2]))[1])
                  IN  r # None /\ RegexPosition(node.subtopics_by_regex, r[1]) = i}))
    /\ \A k \in DOMAIN node.subtopics :
          MembersHeld(self, node.subtopics[k],
              Advance({w \in WalksBy(self, walks, "literal") : Head(w[2]) = k}))

\* the walks of the patterns held by the registered clients, at the root
HeldWalks(self) ==
    UNION {{<<c, Split(p, self.separator)>> : p \in SubMap_list_topics(self, c)} :
              c \in SubMap_list_clients(self)}

\* for every registered client c and every pattern p that c holds, the walk
\* along p's segments reaches a node whose members (or wildcard members,
\* when the walk ends at a wildcard token) contain c
HeldPatternsReachMember(self) ==
    \A c \in SubMap_list_clients(self) :
      \A p \in SubMap_list_topics(self, c) :
        WalkReaches(self, self.subscriptions, Split(p, self.separator), c)

\* every client found in a node's members or wildcard members holds a
\* pattern whose walk ends at that node
MembersHoldPattern(self) ==
    MembersHeld(self, self.subscriptions, HeldWalks(self))

\* C29: in every reachable state, for every registered client c and every
\* pattern p in c's pattern set, walking the trie along p's segments reaches
\* a node whose members contain c (or whose wildcard members contain c when
\* the walk ends at a wildcard token); and conversely every client found in
\* a node's members or wildcard members holds a pattern whose walk ends at
\* that node.
C29_TrieAgreesWithClientPatterns ==
    HeldPatternsReachMember(smap) /\ MembersHoldPattern(smap)

\* the children of a trie node, over its four kinds of edges
ChildNodes(sub) ==
    {sub.subtopics[k] : k \in DOMAIN sub.subtopics}
      \cup {sub.subtopics_by_formula[f] : f \in DOMAIN sub.subtopics_by_formula}
      \cup {sub.subtopics_by_regex[i].sub : i \in 1..Len(sub.subtopics_by_regex)}
      \cup (IF sub.subtopics_any # None THEN {sub.subtopics_any[1]} ELSE {})

RECURSIVE NoEmptyBelow(_)
\* no node below the given node is empty (Subscription::is_empty)
NoEmptyBelow(sub) ==
    \A child \in ChildNodes(sub) :
        ~Subscription_is_empty(child) /\ NoEmptyBelow(child)

\* C31: in every reachable state no trie node other than the root is empty,
\* also after subscribing a pattern whose later segment carries an
\* unparseable formula or an uncompilable regex.
C31_NoEmptyNodeBelowRoot ==
    NoEmptyBelow(smap.subscriptions)

RECURSIVE Join(_, _)
\* the segments joined by the separator
Join(sp, sep) ==
    IF Len(sp) = 0 THEN <<>>
    ELSE IF Len(sp) = 1 THEN sp[1]
    ELSE sp[1] \o <<sep>> \o Join(Tail(sp), sep)

\* the position of the first wildcard token among the segments, 0 if none
FirstWildcard(self, sp) ==
    IF \E i \in 1..Len(sp) : sp[i] \in self.wildcard
    THEN CHOOSE i \in 1..Len(sp) :
            sp[i] \in self.wildcard /\ \A j \in 1..(i - 1) : sp[j] \notin self.wildcard
    ELSE 0

\* the pattern has a wildcard token before its last segment
WildcardNotLast(self, p) ==
    LET sp == Split(p, self.separator)
    IN  FirstWildcard(self, sp) \in 1..(Len(sp) - 1)

\* the pattern cut right after its first wildcard token
Truncated(self, p) ==
    LET sp == Split(p, self.separator)
    IN  Join(SubSeq(sp, 1, FirstWildcard(self, sp)), self.separator)

\* C33: a wildcard token is terminal: a pattern with a wildcard token before
\* its last segment matches the same topics as the pattern cut right after
\* that token, subscribing it builds the trie that subscribing the cut
\* pattern builds (the later segments create no node), and unsubscribing it
\* removes the membership it created.
C33_WildcardIsTerminal ==
    [][ LET c == last'.client[1]
            p == last'.topic[1]
        IN  /\ ( /\ last'.op = "subscribe" /\ last'.ret /\ ~last'.held
                 /\ WildcardNotLast(smap, p) ) =>
                   /\ Matched(p) = Matched(Truncated(smap, p))
                   /\ smap'.subscriptions =
                        subscribe_rec(smap.subscriptions,
                                      Split(Truncated(smap, p), smap.separator), c,
                                      smap.wildcard, smap.match_any,
                                      smap.formula_prefix, smap.regex_prefix)
            /\ ( /\ last'.op = "unsubscribe" /\ last'.held
                 /\ WildcardNotLast(smap, p) ) =>
                   ~WalkReaches(smap', smap'.subscriptions, Split(p, smap.separator), c)
      ]_vars

\* a/#/b was unsubscribed by a client that held it, while the other client
\* is still a wildcard member of node a
C33_Witness ==
    /\ last.op = "unsubscribe" /\ last.held
    /\ last.topic[1] = <<"a", "/", "#", "/", "b">>
    /\ <<"a">> \in DOMAIN smap.subscriptions.subtopics
    /\ smap.subscriptions.subtopics[<<"a">>].sub_any = Clients \ {last.client[1]}

\* Queries whose segments carry the regex or the formula prefix
PrefixTopics ==
    { <<"~", "^", "a", "/", "b">>,
      <<"!", "n", "e", "(", "5", ")", "/", "b">>,
      <<"~", "(", "/", "b">>,
      <<"!", "x", "/", "b">> }

QueryTopics == Topics \cup PrefixTopics

\* C11: whenever no client is registered, the trie root is empty: it has no
\* literal, match-any, formula or regex child and no member in either set.
C11_NoClientEmptyRoot ==
    SubMap_list_clients(smap) = {} =>
        /\ DOMAIN smap.subscriptions.subtopics = {}
        /\ DOMAIN smap.subscriptions.subtopics_by_formula = {}
        /\ smap.subscriptions.subtopics_by_regex = <<>>
        /\ smap.subscriptions.subtopics_any = None
        /\ smap.subscriptions.subscribers = {}
        /\ smap.subscriptions.sub_any = {}

\* The last registered client, holding a pattern, has just been unregistered.
C11_Witness ==
    /\ last.op = "unregister_client"
    /\ last.held
    /\ SubMap_list_clients(smap) = {}
    /\ smap.subscriptions = Subscription_default

\* C13: is_subscribed(t) is true exactly when get_subscribers(t) is
\* non-empty, for plain topics and for queries carrying a prefix.
C13_IsSubscribedIffSubscribers ==
    \A t \in QueryTopics :
        SubMap_is_subscribed(smap, t) <=> (SubMap_get_subscribers(smap, t) # {})

\* The trie has a regex edge and a formula edge that match a topic, and a
\* prefix-carrying query selects a literal child with a subscriber.
C13_Witness ==
    /\ SubMap_is_subscribed(smap, <<"x", "/", "b", "/", "2">>)
    /\ \E t \in PrefixTopics : SubMap_is_subscribed(smap, t)
    /\ \E t \in Topics : ~SubMap_is_subscribed(smap, t)

\* C17: register_client(c) returns true exactly when c was not registered and
\* then c has an empty pattern set; when c was registered it returns false and
\* the patterns, the trie and subscription_count are unchanged.
C17_RegisterClient ==
    [][ last'.op = "register_client" =>
          LET c == last'.client[1]
          IN  /\ last'.ret <=> (c \notin SubMap_list_clients(smap))
              /\ SubMap_list_clients(smap') = SubMap_list_clients(smap) \cup {c}
              /\ last'.ret => SubMap_list_topics(smap', c) = {}
              /\ ~last'.ret =>
                   /\ smap'.subscribed_topics = smap.subscribed_topics
                   /\ smap'.subscriptions = smap.subscriptions
                   /\ SubMap_subscription_count(smap') = SubMap_subscription_count(smap)
      ]_vars

\* A client holding a pattern was registered again: false, patterns kept.
C17_Witness ==
    /\ last.op = "register_client"
    /\ ~last.ret
    /\ SubMap_list_topics(smap, last.client[1]) # {}

\* C19: unsubscribe_all(c) on a registered client returns true, keeps the
\* registered clients, empties list_topics(c), lowers subscription_count by
\* the number of patterns c held, removes c from every get_subscribers result
\* and leaves every other client's patterns and matches unchanged.
C19_UnsubscribeAllFrame ==
    [][ (last'.op = "unsubscribe_all" /\ last'.client[1] \in SubMap_list_clients(smap)) =>
          LET c == last'.client[1]
          IN  /\ last'.ret
              /\ SubMap_list_clients(smap') = SubMap_list_clients(smap)
              /\ SubMap_client_count(smap') = SubMap_client_count(smap)
              /\ SubMap_list_topics(smap', c) = {}
              /\ SubMap_subscription_count(smap') =
                   SubMap_subscription_count(smap)
                     - Cardinality(SubMap_list_topics(smap, c))
              /\ c \notin TrieClients(smap'.subscriptions)
              /\ \A t \in Topics :
                   SubMap_get_subscribers(smap', t) = SubMap_get_subscribers(smap, t) \ {c}
              /\ \A d \in SubMap_list_clients(smap) \ {c} :
                   SubMap_list_topics(smap', d) = SubMap_list_topics(smap, d)
      ]_vars

\* unsubscribe_all released the patterns of a client while another client is
\* still returned for a topic.
C19_Witness ==
    /\ last.op = "unsubscribe_all"
    /\ last.held
    /\ last.ret
    /\ \E t \in Topics : SubMap_get_subscribers(smap, t) # {}


\* ------------------------------------------------------------------------
\* Second configuration: two wildcard tokens, no formula or regex prefix.
\* The same method calls as in Spec, over patterns made of literal,
\* match-any and wildcard segments.
\* ------------------------------------------------------------------------
WildMap == SubMap_wildcard_multiple(SubMap_match_any(SubMap_default, <<"+">>),
                                    {<<"#">>, <<"*">>})

WildPatterns ==
    { <<"#">>,
      <<"*">>,
      <<"a", "/", "#">>,
      <<"a", "/", "+", "/", "#">>,
      <<"+", "/", "+">>,
      <<"a", "/", "b">> }

WildTopics ==
    { <<>>,
      <<"a">>,
      <<"b">>,
      <<"a", "/", "b">>,
      <<"b", "/", "a">>,
      <<"a", "/", "b", "/", "c">>,
      <<"a", "/", "b", "/", "c", "/", "d">>,
      <<"b", "/", "a", "/", "c">> }

WildInit ==
    /\ smap = WildMap
    /\ last = Call("new", None, None, FALSE, TRUE)
    /\ bmap = BroadcastMap_default
    /\ registered = {}
    /\ acl = AclMap_default
    /\ inserted = {}
    /\ eval = NoEval

WildNext ==
    \/ \E c \in Clients : Register(c)
    \/ \E c \in Clients : Unregister(c)
    \/ \E c \in Clients, p \in WildPatterns : Subscribe(c, p)
    \/ \E c \in Clients, p \in WildPatterns : Unsubscribe(c, p)
    \/ \E c \in Clients : UnsubscribeAll(c)

WildSpec == WildInit /\ [][WildNext]_vars

\* Segments of a pattern without its last segment.
Front(sp) == SubSeq(sp, 1, Len(sp) - 1)

\* The pattern string ends in a wildcard token after a non-empty prefix of
\* literal and match-any segments.
EndsInWildcard(self, p) ==
    LET sp == Split(p, self.separator)
    IN  /\ Len(sp) >= 2
        /\ sp[Len(sp)] \in self.wildcard
        /\ \A i \in 1..(Len(sp) - 1) : sp[i] \notin self.wildcard

\* No segment of the pattern string is a wildcard token.
WildcardFree(self, p) ==
    \A i \in 1..Len(Split(p, self.separator)) : Split(p, self.separator)[i] \notin self.wildcard

\* The first Len(ps) topic segments are accepted one by one by the pattern
\* segments ps: a match-any segment accepts any value, a literal its equal.
SegmentsAccept(self, ps, ts) ==
    /\ Len(ts) >= Len(ps)
    /\ \A i \in 1..Len(ps) : ps[i] \in self.match_any \/ ps[i] = ts[i]

\* C14: a pattern P/<wildcard> matches every topic that extends P by at least
\* one segment, and neither P itself nor a proper prefix of P: the client that
\* has just subscribed it is returned for every extension, and a client that
\* holds nothing else is not returned for P or a prefix of P.
C14_TrailingWildcardMatchesExtensions ==
    (last.op = "subscribe" /\ last.ret /\ ~last.held
       /\ EndsInWildcard(smap, last.topic[1])) =>
        LET c == last.client[1]
            P == Front(Split(last.topic[1], smap.separator))
        IN  \A t \in WildTopics :
              LET ts == Split(t, smap.separator)
              IN  /\ (Len(ts) > Len(P) /\ SegmentsAccept(smap, P, ts))
                       => c \in SubMap_get_subscribers(smap, t)
                  /\ ( /\ Len(ts) <= Len(P)
                       /\ SegmentsAccept(smap, SubSeq(P, 1, Len(ts)), ts)
                       /\ SubMap_list_topics(smap, c) = {last.topic[1]} )
                       => c \notin SubMap_get_subscribers(smap, t)

\* A client subscribed a/+/# as its only pattern while another client is
\* returned for the topic a/b.
C14_Witness ==
    /\ last.op = "subscribe" /\ last.ret /\ ~last.held
    /\ last.topic[1] = <<"a", "/", "+", "/", "#">>
    /\ SubMap_list_topics(smap, last.client[1]) = {last.topic[1]}
    /\ last.client[1] \in SubMap_get_subscribers(smap, <<"a", "/", "b", "/", "c">>)
    /\ SubMap_get_subscribers(smap, <<"a", "/", "b">>) # {}

\* C15: a match-any segment matches exactly one segment of any value: a
\* pattern of n segments without wildcard matches the topics of exactly n
\* segments that its segments accept, and no other topic.
C15_MatchAnyIsOneSegment ==
    (last.op = "subscribe" /\ last.ret /\ ~last.held
       /\ WildcardFree(smap, last.topic[1])) =>
        LET c  == last.client[1]
            ps == Split(last.topic[1], smap.separator)
        IN  \A t \in WildTopics :
              LET ts == Split(t, smap.separator)
              IN  /\ (Len(ts) = Len(ps) /\ SegmentsAccept(smap, ps, ts))
                       => c \in SubMap_get_subscribers(smap, t)
                  /\ ( /\ SubMap_list_topics(smap, c) = {last.topic[1]}
                       /\ c \in SubMap_get_subscribers(smap, t) )
                       => (Len(ts) = Len(ps) /\ SegmentsAccept(smap, ps, ts))

\* A client subscribed +/+ as its only pattern: it is returned for a/b and
\* b/a, not for a nor for a/b/c.
C15_Witness ==
    /\ last.op = "subscribe" /\ last.ret /\ ~last.held
    /\ last.topic[1] = <<"+", "/", "+">>
    /\ SubMap_list_topics(smap, last.client[1]) = {last.topic[1]}
    /\ last.client[1] \in SubMap_get_subscribers(smap, <<"a", "/", "b">>)
    /\ last.client[1] \in SubMap_get_subscribers(smap, <<"b", "/", "a">>)
    /\ last.client[1] \notin SubMap_get_subscribers(smap, <<"a">>)
    /\ last.client[1] \notin SubMap_get_subscribers(smap, <<"a", "/", "b", "/", "c">>)

\* C16: a client that holds a pattern consisting of a single wildcard token
\* is returned for every topic, the empty topic included; right after it
\* unsubscribed that pattern and holds no pattern it is returned for none.
C16_SingleWildcardMatchesAll ==
    /\ \A c \in SubMap_list_clients(smap) :
         (\E p \in SubMap_list_topics(smap, c) : p \in smap.wildcard) =>
             \A t \in WildTopics : c \in SubMap_get_subscribers(smap, t)
    /\ ( /\ last.op = "unsubscribe" /\ last.held
         /\ last.topic[1] \in smap.wildcard
         /\ SubMap_list_topics(smap, last.client[1]) = {} ) =>
           \A t \in WildTopics : last.client[1] \notin SubMap_get_subscribers(smap, t)

\* C18: unsubscribe(p, c) of a registered client that does not hold the
\* pattern string p returns true and changes nothing.
C18_UnsubscribeNotHeldIsNoop ==
    [][ ( /\ last'.op = "unsubscribe"
          /\ last'.client[1] \in SubMap_list_clients(smap)
          /\ last'.topic[1] \notin SubMap_list_topics(smap, last'.client[1]) ) =>
            /\ last'.ret
            /\ smap' = smap
      ]_vars

\* The client holds one wildcard token and unsubscribed the other one, which
\* walks to the same member set; it is still returned.
C18_Witness ==
    /\ last.op = "unsubscribe" /\ ~last.held /\ last.ret
    /\ last.topic[1] = <<"*">>
    /\ <<"#">> \in SubMap_list_topics(smap, last.client[1])
    /\ last.client[1] \in SubMap_get_subscribers(smap, <<"a">>)


RECURSIVE ReachedNodes(_, _, _, _)
\* the nodes that get_subscribers_rec visits from the given node for the
\* topic segments sp, each with the segments left when it is visited
ReachedNodes(subscription, sp, formula_prefix, regex_prefix) ==
    IF sp = <<>> THEN {<<subscription, sp>>}
    ELSE
    LET topic   == Head(sp)
        rest    == Tail(sp)
        formula == and_then_strip_prefix(formula_prefix, topic)
        regex   == and_then_strip_prefix(regex_prefix, topic)
        from(sub) == ReachedNodes(sub, rest, formula_prefix, regex_prefix)
        names   == DOMAIN subscription.subtopics
        by_name ==
            IF formula # None THEN
                UNION {from(subscription.subtopics[name]) :
                         name \in keys_match_formula(names, formula[1])}
            ELSE IF regex # None THEN
                LET compiled == Regex_new(regex[1])
                IN  IF compiled = None THEN {}
                    ELSE UNION {from(subscription.subtopics[name]) :
                                  name \in {n \in names : Regex_is_match(compiled[1], n)}}
            ELSE IF topic \in names THEN from(subscription.subtopics[topic])
            ELSE {}
        by_formula ==
            UNION {from(subscription.subtopics_by_formula[f]) :
                     f \in {g \in DOMAIN subscription.subtopics_by_formula :
                              Formula_matches(g, topic)}}
        by_regex ==
            UNION {from(subscription.subtopics_by_regex[i].sub) :
                     i \in {j \in 1..Len(subscription.subtopics_by_regex) :
                              Regex_is_match(subscription.subtopics_by_regex[j].regex, topic)}}
        by_any ==
            IF subscription.subtopics_any # None
            THEN from(subscription.subtopics_any[1])
            ELSE {}
    IN  {<<subscription, sp>>} \cup by_name \cup by_formula \cup by_regex \cup by_any

\* the nodes that get_subscribers(topic) visits, from the root
SubMap_reached(self, topic) ==
    ReachedNodes(self.subscriptions, Split(topic, self.separator),
                 self.formula_prefix, self.regex_prefix)

Lib_Subscription_default ==
    [subscribers   |-> {},
     subtopics     |-> EmptyMap,
     subtopics_any |-> None,
     sub_any       |-> {}]

Lib_Subscription_is_empty(sub) ==
    /\ sub.subscribers = {}
    /\ DOMAIN sub.subtopics = {}
    /\ sub.subtopics_any = None
    /\ sub.sub_any = {}

RECURSIVE Lib_subscribe_rec(_, _, _, _, _)
Lib_subscribe_rec(subscription, sp, client, wildcard, match_any) ==
    IF sp = <<>> THEN [subscription EXCEPT !.subscribers = @ \cup {client}]
    ELSE
    LET topic == Head(sp)
        into(sub) == Lib_subscribe_rec(sub, Tail(sp), client, wildcard, match_any)
    IN  IF topic = wildcard THEN
            [subscription EXCEPT !.sub_any = @ \cup {client}]
        ELSE IF topic = match_any THEN
            IF subscription.subtopics_any # None
            THEN [subscription EXCEPT !.subtopics_any = Some(into(@[1]))]
            ELSE [subscription EXCEPT
                    !.subtopics_any = Some(into(Lib_Subscription_default))]
        ELSE IF topic \in DOMAIN subscription.subtopics THEN
            [subscription EXCEPT !.subtopics[topic] = into(@)]
        ELSE
            [subscription EXCEPT
                !.subtopics = MapInsert(@, topic, into(Lib_Subscription_default))]

RECURSIVE Lib_unsubscribe_rec(_, _, _, _, _)
Lib_unsubscribe_rec(subscription, sp, client, wildcard, match_any) ==
    IF sp = <<>> THEN [subscription EXCEPT !.subscribers = @ \ {client}]
    ELSE
    LET topic == Head(sp)
        into(sub) == Lib_unsubscribe_rec(sub, Tail(sp), client, wildcard, match_any)
    IN  IF topic = wildcard THEN
            [subscription EXCEPT !.sub_any = @ \ {client}]
        ELSE IF topic = match_any THEN
            IF subscription.subtopics_any # None
            THEN LET sub == into(subscription.subtopics_any[1])
                 IN  IF Lib_Subscription_is_empty(sub)
                     THEN [subscription EXCEPT !.subtopics_any = None]
                     ELSE [subscription EXCEPT !.subtopics_any = Some(sub)]
            ELSE subscription
        ELSE IF topic \in DOMAIN subscription.subtopics THEN
            LET sub == into(subscription.subtopics[topic])
            IN  IF Lib_Subscription_is_empty(sub)
                THEN [subscription EXCEPT !.subtopics = MapRemove(@, topic)]
                ELSE [subscription EXCEPT !.subtopics[topic] = sub]
        ELSE subscription

RECURSIVE Lib_get_subscribers_rec(_, _)
\* The accumulator `result` of the code is the returned set.
Lib_get_subscribers_rec(subscription, sp) ==
    subscription.sub_any \cup
    IF sp = <<>> THEN subscription.subscribers
    ELSE (IF Head(sp) \in DOMAIN subscription.subtopics
          THEN Lib_get_subscribers_rec(subscription.subtopics[Head(sp)], Tail(sp))
          ELSE {})
         \cup
         (IF subscription.subtopics_any # None
          THEN Lib_get_subscribers_rec(subscription.subtopics_any[1], Tail(sp))
          ELSE {})

LibSubMap_default ==
    [subscriptions      |-> Lib_Subscription_default,
     subscribed_topics  |-> EmptyMap,
     subscription_count |-> 0,
     separator          |-> "/",
     match_any          |-> <<"?">>,
     wildcard           |-> <<"*">>]

LibSubMap_separator(self, sep) == [self EXCEPT !.separator = sep]

LibSubMap_register_client(self, client) ==
    IF client \in DOMAIN self.subscribed_topics
    THEN [self |-> self, ret |-> FALSE]
    ELSE [self |-> [self EXCEPT !.subscribed_topics = MapInsert(@, client, {})],
          ret  |-> TRUE]

RECURSIVE Lib_UnsubscribeEach(_, _, _)
\* the loop of unregister_client over the removed topic set, in the
\* iteration order `order`
Lib_UnsubscribeEach(self, order, client) ==
    IF order = <<>> THEN self
    ELSE Lib_UnsubscribeEach(
            [self EXCEPT
                !.subscriptions =
                    Lib_unsubscribe_rec(@, Split(Head(order), self.separator), client,
                                        self.wildcard, self.match_any),
                !.subscription_count = @ - 1],
            Tail(order), client)

LibSubMap_unregister_client(self, client, order) ==
    IF client \in DOMAIN self.subscribed_topics
    THEN [self |-> Lib_UnsubscribeEach(
                      [self EXCEPT !.subscribed_topics = MapRemove(@, client)],
                      order, client),
          ret  |-> TRUE]
    ELSE [self |-> self, ret |-> FALSE]

LibSubMap_subscribe(self, topic, client) ==
    IF client \notin DOMAIN self.subscribed_topics
    THEN [self |-> self, ret |-> FALSE]
    ELSE IF topic \notin self.subscribed_topics[client]
    THEN [self |-> [self EXCEPT
                      !.subscriptions =
                          Lib_subscribe_rec(@, Split(topic, self.separator), client,
                                            self.wildcard, self.match_any),
                      !.subscribed_topics[client] = @ \cup {topic},
                      !.subscription_count = @ + 1],
          ret  |-> TRUE]
    ELSE [self |-> self, ret |-> TRUE]

\* The topic is split by the character '/', whatever the separator is.
LibSubMap_unsubscribe(self, topic, client) ==
    IF client \notin DOMAIN self.subscribed_topics
    THEN [self |-> self, ret |-> FALSE]
    ELSE IF topic \in self.subscribed_topics[client]
    THEN [self |-> [self EXCEPT
                      !.subscriptions =
                          Lib_unsubscribe_rec(@, Split(topic, "/"), client,
                                              self.wildcard, self.match_any),
                      !.subscribed_topics[client] = @ \ {topic},
                      !.subscription_count = @ - 1],
          ret  |-> TRUE]
    ELSE [self |-> self, ret |-> TRUE]

LibSubMap_get_subscribers(self, topic) ==
    Lib_get_subscribers_rec(self.subscriptions, Split(topic, self.separator))

LibSubMap_subscription_count(self) == self.subscription_count

LibSubMap_client_count(self) == Cardinality(DOMAIN self.subscribed_topics)

\* Maps of lib.rs with the default separator and with the separator '.'.
LibConfigs == {LibSubMap_default, LibSubMap_separator(LibSubMap_default, ".")}

LibPatterns ==
    { <<"a", ".", "b">>,
      <<"a", ".", "*">>,
      <<"a", "/", "b">> }

LibTopics ==
    { <<"a", ".", "b">>,
      <<"a", ".", "c">>,
      <<"a", "/", "b">>,
      <<"a", "/", "c">> }

LibInit ==
    /\ smap \in LibConfigs
    /\ last = Call("new", None, None, FALSE, TRUE)
    /\ bmap = BroadcastMap_default
    /\ registered = {}
    /\ acl = AclMap_default
    /\ inserted = {}
    /\ eval = NoEval

LibRegister(c) ==
    LET r == LibSubMap_register_client(smap, c)
    IN  /\ smap' = r.self
        /\ last' = Call("register_client", Some(c), None, FALSE, r.ret)
        /\ UNCHANGED <<bmap, registered, acl, inserted, eval>>

LibUnregister(c) ==
    \E order \in Orders(IF c \in DOMAIN smap.subscribed_topics
                        THEN smap.subscribed_topics[c] ELSE {}) :
        LET r == LibSubMap_unregister_client(smap, c, order)
        IN  /\ smap' = r.self
            /\ last' = Call("unregister_client", Some(c), None, order # <<>>, r.ret)
            /\ UNCHANGED <<bmap, registered, acl, inserted, eval>>

LibSubscribe(c, p) ==
    LET r == LibSubMap_subscribe(smap, p, c)
    IN  /\ r.self.subscription_count <= MaxSubscriptions
        /\ smap' = r.self
        /\ last' = Call("subscribe", Some(c), Some(p),
                        c \in DOMAIN smap.subscribed_topics
                          /\ p \in smap.subscribed_topics[c], r.ret)
        /\ UNCHANGED <<bmap, registered, acl, inserted, eval>>

LibUnsubscribe(c, p) ==
    LET r == LibSubMap_unsubscribe(smap, p, c)
    IN  /\ smap' = r.self
        /\ last' = Call("unsubscribe", Some(c), Some(p),
                        c \in DOMAIN smap.subscribed_topics
                          /\ p \in smap.subscribed_topics[c], r.ret)
        /\ UNCHANGED <<bmap, registered, acl, inserted, eval>>

LibNext ==
    \/ \E c \in Clients : LibRegister(c)
    \/ \E c \in Clients : LibUnregister(c)
    \/ \E c \in Clients, p \in LibPatterns : LibSubscribe(c, p)
    \/ \E c \in Clients, p \in LibPatterns : LibUnsubscribe(c, p)

LibSpec == LibInit /\ [][LibNext]_vars

RECURSIVE Lib_TrieClients(_)
\* every client that is a member of some node of the trie
Lib_TrieClients(sub) ==
    sub.subscribers \cup sub.sub_any
      \cup UNION {Lib_TrieClients(sub.subtopics[k]) : k \in DOMAIN sub.subtopics}
      \cup (IF sub.subtopics_any # None THEN Lib_TrieClients(sub.subtopics_any[1]) ELSE {})

\* C12: the pattern is split by the configured separator in every
\* operation: right after unsubscribe(p, c) of a pattern c held, a client
\* that holds no pattern any more has no trie membership and is returned
\* for no topic (stated here for the SubMap of lib.rs, under both separators).
C12_SeparatorHonoured ==
    ( /\ last.op = "unsubscribe" /\ last.held
      /\ smap.subscribed_topics[last.client[1]] = {} ) =>
        /\ \A t \in LibTopics : last.client[1] \notin LibSubMap_get_subscribers(smap, t)
        /\ last.client[1] \notin Lib_TrieClients(smap.subscriptions)

\* ------------------------------------------------------------------------
\* BroadcastMap state machine.  `registered` records the (name, client)
\* pairs that were registered and not unregistered since; the map itself
\* keeps no such index.
\* ------------------------------------------------------------------------
BMap == BroadcastMap_separator(BroadcastMap_default, "/")

BNames ==
    { <<"a">>,
      <<"a", "/", "b">>,
      <<"a", "/", "c">>,
      <<"b", "/", "c">> }

BMasks ==
    { <<"*">>,
      <<"?">>,
      <<"a">>,
      <<"a", "/", "*">>,
      <<"a", "/", "?">>,
      <<"a", "/", "b">>,
      <<"?", "/", "c">>,
      <<"?", "/", "?">>,
      <<"?", "/", "*">>,
      <<"a", "/", "b", "/", "*">>,
      <<"a", "/", "b", "/", "?">> }

BInit ==
    /\ bmap = BMap
    /\ registered = {}
    /\ acl = AclMap_default
    /\ inserted = {}
    /\ eval = NoEval
    /\ smap = SubMap_default
    /\ last = Call("new", None, None, FALSE, TRUE)

BRegister(name, c) ==
    /\ bmap' = BroadcastMap_register_client(bmap, name, c)
    /\ registered' = registered \cup {<<name, c>>}
    /\ last' = Call("register_client", Some(c), Some(name), <<name, c>> \in registered, TRUE)
    /\ UNCHANGED <<smap, acl, inserted, eval>>

BUnregister(name, c) ==
    /\ bmap' = BroadcastMap_unregister_client(bmap, name, c)
    /\ registered' = registered \ {<<name, c>>}
    /\ last' = Call("unregister_client", Some(c), Some(name), <<name, c>> \in registered, TRUE)
    /\ UNCHANGED <<smap, acl, inserted, eval>>

BNext ==
    \/ \E name \in BNames, c \in Clients : BRegister(name, c)
    \/ \E name \in BNames, c \in Clients : BUnregister(name, c)

BSpec == BInit /\ [][BNext]_vars

\* The names at which client c is registered.
NamesOf(c) == {pair[1] : pair \in {q \in registered : q[2] = c}}

\* The mask accepts the name: a mask without wildcard accepts the names of
\* the same number of segments, segment by segment; a mask P/<wildcard>
\* accepts the names that extend a name accepted by P by at least one segment.
MaskAccepts(self, mask, name) ==
    LET ms == Split(mask, self.separator)
        ns == Split(name, self.separator)
    IN  IF ms[Len(ms)] \in self.wildcard
        THEN Len(ns) > Len(ms) - 1 /\ SegmentsAccept(self, Front(ms), ns)
        ELSE Len(ns) = Len(ms) /\ SegmentsAccept(self, ms, ns)

\* C20: when each registered client is registered at one name,
\* get_clients_by_mask(mask) returns exactly the clients registered at a name
\* that the mask accepts.
C20_MaskReturnsRegisteredClients ==
    (\A c \in Clients : Cardinality(NamesOf(c)) <= 1) =>
        \A mask \in BMasks :
            BroadcastMap_get_clients_by_mask(bmap, mask) =
                {c \in Clients : \E name \in NamesOf(c) : MaskAccepts(bmap, mask, name)}

\* C21: when every (name, client) pair that was registered has been
\* unregistered with the same name and client, is_empty() is true.
C21_AllUnregisteredIsEmpty ==
    registered = {} => BroadcastMap_is_empty(bmap)

\* The last registered pair has just been unregistered.
C21_Witness ==
    /\ last.op = "unregister_client"
    /\ last.held
    /\ registered = {}
    /\ BroadcastMap_is_empty(bmap)

\* ------------------------------------------------------------------------
\* AclMap state machine.  `inserted` records the patterns passed to insert.
\* ------------------------------------------------------------------------
\* AclMap::new(), the derived AclMap::default(), and new() with MQTT tokens
AclConfigs ==
    { AclMap_new,
      AclMap_default,
      AclMap_match_any(AclMap_wildcard(AclMap_new, <<"#">>), <<"+">>) }

AclPatterns ==
    { <<"a", "/", "*">>,
      <<"a", "/", "b">>,
      <<"?", "/", "b">>,
      <<"*">>,
      <<"a", "/", "+", "/", "#">>,
      <<"b">> }

AclTopics ==
    { <<>>,
      <<"a">>,
      <<"b">>,
      <<"a", "/", "b">>,
      <<"a", "/", "c">>,
      <<"c", "/", "b">>,
      <<"a", "/", "*">>,
      <<"a", "/", "b", "/", "c">> }

AclInit ==
    /\ acl \in AclConfigs
    /\ inserted = {}
    /\ eval = NoEval
    /\ smap = SubMap_default
    /\ bmap = BroadcastMap_default
    /\ registered = {}
    /\ last = Call("new", None, None, FALSE, TRUE)

AclInsert(p) ==
    /\ acl' = AclMap_insert(acl, p)
    /\ inserted' = inserted \cup {p}
    /\ last' = Call("insert", None, Some(p), p \in inserted, TRUE)
    /\ UNCHANGED <<smap, bmap, registered, eval>>

AclNext == \E p \in AclPatterns : AclInsert(p)

AclSpec == AclInit /\ [][AclNext]_vars

\* The pattern accepts the topic under the matching rules for literal,
\* match-any and terminal wildcard segments: without wildcard the topic has
\* the same number of segments, each accepted by its pattern segment; with a
\* terminal wildcard the topic extends an accepted prefix by at least one
\* segment.
PatternAccepts(self, p, t) ==
    LET ps == Split(p, self.separator)
        ts == Split(t, self.separator)
    IN  IF ps[Len(ps)] \in self.wildcard
        THEN Len(ts) > Len(ps) - 1 /\ SegmentsAccept(self, Front(ps), ts)
        ELSE Len(ts) = Len(ps) /\ SegmentsAccept(self, ps, ts)

\* C22: matches(t) is true exactly when a pattern passed to insert accepts
\* the topic t, and list() is exactly the set of patterns passed to insert.
C22_MatchesIffInsertedPatternMatches ==
    /\ \A t \in AclTopics :
         AclMap_matches(acl, t) <=> \E p \in inserted : PatternAccepts(acl.smap, p, t)
    /\ AclMap_list(acl) = inserted

\* C23: every AclMap has its implicit client registered: right after
\* insert(p), list() contains p and matches(t) is true for every topic that
\* p accepts.
C23_InsertAlwaysAdds ==
    last.op = "insert" =>
        /\ last.topic[1] \in AclMap_list(acl)
        /\ \A t \in AclTopics :
             PatternAccepts(acl.smap, last.topic[1], t) => AclMap_matches(acl, t)

\* ------------------------------------------------------------------------
\* Formula evaluation as a state machine: `eval` records one call of
\* Formula::matches, keys_match_formula or values_match_key_formula with its
\* arguments and its result.
\* ------------------------------------------------------------------------
\* Formula texts with what they denote: the function, its arguments (m = n
\* for a function of one argument) and the key prefix; "invalid" for a text
\* that is no formula.
FormulaInputs ==
    { [text |-> <<"e", "q", "(", "2", ")">>, kind |-> "eq", n |-> 2, m |-> 2, prefix |-> None],
      [text |-> <<"n", "e", "(", "2", ")">>, kind |-> "ne", n |-> 2, m |-> 2, prefix |-> None],
      [text |-> <<"g", "t", "(", "2", ")">>, kind |-> "gt", n |-> 2, m |-> 2, prefix |-> None],
      [text |-> <<"l", "t", "(", "2", ")">>, kind |-> "lt", n |-> 2, m |-> 2, prefix |-> None],
      [text |-> <<"g", "e", "(", "2", ")">>, kind |-> "ge", n |-> 2, m |-> 2, prefix |-> None],
      [text |-> <<"l", "e", "(", "2", ")">>, kind |-> "le", n |-> 2, m |-> 2, prefix |-> None],
      [text |-> <<"g", "e", "(", "-", "1", ")">>, kind |-> "ge", n |-> 0 - 1, m |-> -1, prefix |-> None],
      [text |-> <<"r", "i", "(", "1", ".", ".", "3", ")">>, kind |-> "ri", n |-> 1, m |-> 3, prefix |-> None],
      [text |-> <<"r", "i", "(", "2", ".", ".", "2", ")">>, kind |-> "ri", n |-> 2, m |-> 2, prefix |-> None],
      [text |-> <<"r", "i", "(", "3", ".", ".", "1", ")">>, kind |-> "ri", n |-> 3, m |-> 1, prefix |-> None],
      [text |-> <<"r", "i", "(", "-", "1", ".", ".", "1", ")">>, kind |-> "ri", n |-> 0 - 1, m |-> 1, prefix |-> None],
      [text |-> <<"a", "#", "g", "t", "(", "2", ")">>, kind |-> "gt", n |-> 2, m |-> 2, prefix |-> Some(<<"a">>)],
      [text |-> <<"a", "#", "n", "e", "(", "2", ")">>, kind |-> "ne", n |-> 2, m |-> 2, prefix |-> Some(<<"a">>)],
      [text |-> <<"a", "#", "e", "q", "(", "2", ")">>, kind |-> "eq", n |-> 2, m |-> 2, prefix |-> Some(<<"a">>)],
      [text |-> <<"a", "#", "r", "i", "(", "1", ".", ".", "3", ")">>, kind |-> "ri", n |-> 1, m |-> 3, prefix |-> Some(<<"a">>)],
      [text |-> <<"x", "x", "(", "2", ")">>, kind |-> "invalid", n |-> 0, m |-> 0, prefix |-> None],
      [text |-> <<"g", "e", "(", "2">>, kind |-> "invalid", n |-> 0, m |-> 0, prefix |-> None],
      [text |-> <<"g", "e", "(", "b", ")">>, kind |-> "invalid", n |-> 0, m |-> 0, prefix |-> None],
      [text |-> <<"g", "e">>, kind |-> "invalid", n |-> 0, m |-> 0, prefix |-> None],
      [text |-> <<"r", "i", "(", "1", ")">>, kind |-> "invalid", n |-> 0, m |-> 0, prefix |-> None],
      [text |-> <<>>, kind |-> "invalid", n |-> 0, m |-> 0, prefix |-> None],
      [text |-> <<"a", "#", "x", "x", "(", "2", ")">>, kind |-> "invalid", n |-> 0, m |-> 0, prefix |-> None] }

\* Key texts with the integer they denote, None for a text that is no
\* integer of 64 bits.
KeyInputs ==
    { [text |-> <<"1">>, v |-> Some(1)],
      [text |-> <<"2">>, v |-> Some(2)],
      [text |-> <<"3">>, v |-> Some(3)],
      [text |-> <<"4">>, v |-> Some(4)],
      [text |-> <<"-", "1">>, v |-> Some(0 - 1)],
      [text |-> <<"+", "3">>, v |-> Some(3)],
      [text |-> <<"0", "2">>, v |-> Some(2)],
      [text |-> <<>>, v |-> None],
      [text |-> <<"b">>, v |-> None],
      [text |-> <<"2", "b">>, v |-> None],
      [text |-> <<"-">>, v |-> None],
      [text |-> <<"9", "2", "2", "3", "3", "7", "2", "0", "3", "6", "8", "5", "4", "7", "7", "5", "8", "0", "8">>, v |-> None],
      [text |-> <<"a">>, v |-> None],
      [text |-> <<"a", "1">>, v |-> None],
      [text |-> <<"a", "2">>, v |-> None],
      [text |-> <<"a", "3">>, v |-> None],
      [text |-> <<"a", "b">>, v |-> None],
      [text |-> <<"a", "9", "2", "2", "3", "3", "7", "2", "0", "3", "6", "8", "5", "4", "7", "7", "5", "8", "0", "8">>, v |-> None] }

KeyTexts == {k.text : k \in KeyInputs}

\* the key sets that the map calls are applied to
KeySets ==
    { {},
      {<<"1">>, <<"2">>, <<"3">>, <<"4">>, <<"b">>},
      {<<"a1">>, <<"a2">>, <<"a3">>, <<"ab">>, <<"2">>},
      {<<>>, <<"-1">>, <<"+3">>, <<"02">>},
      KeyTexts }

\* a map over the keys: each value is the key text after the letter v
MapOver(keys) == [k \in keys |-> <<"v">> \o k]

EvalInit ==
    /\ eval = NoEval
    /\ smap = SubMap_default
    /\ bmap = BroadcastMap_default
    /\ registered = {}
    /\ acl = AclMap_default
    /\ inserted = {}
    /\ last = Call("new", None, None, FALSE, TRUE)

\* text.parse::<Formula>() succeeded, then Formula::matches(key)
EvalMatches(f, k) ==
    /\ Formula_from_str(f) # None
    /\ eval' = [op |-> "matches", formula |-> Some(f), key |-> Some(k), keys |-> {},
                ret |-> Some(Formula_matches(Formula_from_str(f)[1], k))]
    /\ UNCHANGED <<smap, last, bmap, registered, acl, inserted>>

EvalKeys(f, keys) ==
    /\ eval' = [op |-> "keys_match_formula", formula |-> Some(f), key |-> None,
                keys |-> keys, ret |-> Some(keys_match_formula(keys, f))]
    /\ UNCHANGED <<smap, last, bmap, registered, acl, inserted>>

EvalValues(f, keys) ==
    /\ eval' = [op |-> "values_match_key_formula", formula |-> Some(f), key |-> None,
                keys |-> keys, ret |-> Some(values_match_key_formula(MapOver(keys), f))]
    /\ UNCHANGED <<smap, last, bmap, registered, acl, inserted>>

EvalNext ==
    \/ \E f \in FormulaInputs, k \in KeyInputs : EvalMatches(f.text, k.text)
    \/ \E f \in FormulaInputs, keys \in KeySets : EvalKeys(f.text, keys)
    \/ \E f \in FormulaInputs, keys \in KeySets : EvalValues(f.text, keys)

EvalSpec == EvalInit /\ [][EvalNext]_vars

\* what the formula text of the recorded call denotes
EvalFormula == CHOOSE f \in FormulaInputs : f.text = eval.formula[1]

\* the integer denoted by a key text, None if it denotes none
IntOf(text) == (CHOOSE k \in KeyInputs : k.text = text).v

\* the function of formula f holds of the integer v
Holds(f, v) ==
    CASE f.kind = "eq" -> v = f.n
      [] f.kind = "ne" -> v # f.n
      [] f.kind = "gt" -> v > f.n
      [] f.kind = "lt" -> v < f.n
      [] f.kind = "ge" -> v >= f.n
      [] f.kind = "le" -> v <= f.n
      [] f.kind = "ri" -> f.n <= v /\ v <= f.m

\* the function of formula f is satisfied by the text: by the integer it
\* denotes, and by a text that denotes none for ne only
Satisfies(f, text) ==
    IF IntOf(text) = None THEN f.kind = "ne" ELSE Holds(f, IntOf(text)[1])

\* C25: a formula without key prefix evaluated on a key that denotes no
\* integer is false for eq, gt, lt, ge, le and ri and true for ne; on a key
\* that denotes the integer v it is v = n, v # n, v > n, v < n, v >= n,
\* v <= n for eq, ne, gt, lt, ge, le.
C25_FormulaEvaluation ==
    (eval.op = "matches" /\ EvalFormula.prefix = None) =>
        LET f == EvalFormula
            v == IntOf(eval.key[1])
        IN  IF v = None
            THEN eval.ret[1] = (f.kind = "ne")
            ELSE f.kind # "ri" => (eval.ret[1] = Holds(f, v[1]))

\* ne was evaluated on a key that denotes no integer and answered true.
C25_Witness ==
    /\ eval.op = "matches"
    /\ EvalFormula.prefix = None
    /\ EvalFormula.kind = "ne"
    /\ IntOf(eval.key[1]) = None
    /\ eval.ret[1]

\* C26: ri(n..m) without key prefix matches exactly the keys that denote an
\* integer v with n <= v <= m, and no key when n > m.
C26_RangeInclusive ==
    (eval.op = "matches" /\ EvalFormula.prefix = None /\ EvalFormula.kind = "ri") =>
        LET f == EvalFormula
            v == IntOf(eval.key[1])
        IN  /\ eval.ret[1] <=> (v # None /\ f.n <= v[1] /\ v[1] <= f.m)
            /\ f.n > f.m => ~eval.ret[1]

\* ri(1..3) was evaluated on the key 3, its upper bound, and answered true.
C26_Witness ==
    /\ eval.op = "matches"
    /\ eval.formula[1] = <<"r", "i", "(", "1", ".", ".", "3", ")">>
    /\ eval.key[1] = <<"3">>
    /\ eval.ret[1]

\* the text begins with the prefix
BeginsWith(text, prefix) ==
    Len(prefix) <= Len(text) /\ SubSeq(text, 1, Len(prefix)) = prefix

\* C27: a formula with a key prefix matches a key exactly when the key
\* begins with the prefix and the rest of the key satisfies the function; a
\* key without the prefix never matches, for ne as for the other functions.
C27_KeyPrefix ==
    (eval.op = "matches" /\ EvalFormula.prefix # None) =>
        LET f   == EvalFormula
            key == eval.key[1]
            p   == f.prefix[1]
        IN  eval.ret[1] <=>
              ( /\ BeginsWith(key, p)
                /\ Satisfies(f, SubSeq(key, Len(p) + 1, Len(key))) )

\* a#ne(2) was evaluated on a key that does not begin with a: false.
C27_Witness ==
    /\ eval.op = "matches"
    /\ EvalFormula.prefix # None
    /\ EvalFormula.kind = "ne"
    /\ ~BeginsWith(eval.key[1], EvalFormula.prefix[1])
    /\ ~eval.ret[1]

\* C28: keys_match_formula and values_match_key_formula called with a text
\* that is no formula yield no key and no value, whatever the map contains.
C28_InvalidFormulaYieldsNothing ==
    ( /\ eval.op \in {"keys_match_formula", "values_match_key_formula"}
      /\ EvalFormula.kind = "invalid" ) =>
        eval.ret[1] = {}

\* keys_match_formula was called with an unknown function name on the map
\* of all keys and yielded nothing.
C28_Witness ==
    /\ eval.op = "keys_match_formula"
    /\ eval.formula[1] = <<"x", "x", "(", "2", ")">>
    /\ eval.keys = KeyTexts
    /\ eval.ret[1] = {}

\* ------------------------------------------------------------------------
\* BroadcastMap reached by register_client calls only
\* ------------------------------------------------------------------------
BRegNext == \E name \in BNames, c \in Clients : BRegister(name, c)

BRegSpec == BInit /\ [][BRegNext]_vars

\* paths of nodes, as sequences of segments: the root, the literal paths of
\* the names and of their prefixes, and paths through match-any children
BPaths ==
    { <<>>,
      << <<"a">> >>, << <<"b">> >>, << <<"?">> >>,
      << <<"a">>, <<"b">> >>, << <<"a">>, <<"c">> >>, << <<"b">>, <<"c">> >>,
      << <<"?">>, <<"c">> >>, << <<"a">>, <<"?">> >>, << <<"?">>, <<"?">> >> }

RECURSIVE NodeAt(_, _, _)
\* the node at the path, None if the trie has none: a match-any token goes to
\* childs_any, any other segment to the child of that name
NodeAt(broadcast, path, match_any) ==
    IF path = <<>> THEN Some(broadcast)
    ELSE IF Head(path) \in match_any THEN
        IF broadcast.childs_any # None
        THEN NodeAt(broadcast.childs_any[1], Tail(path), match_any)
        ELSE None
    ELSE IF Head(path) \in DOMAIN broadcast.childs
    THEN NodeAt(broadcast.childs[Head(path)], Tail(path), match_any)
    ELSE None

\* the clients registered at a name of exactly the path's segments
RegisteredAt(self, path) ==
    {c \in Clients : \E name \in NamesOf(c) :
        LET ns == Split(name, self.separator)
        IN  Len(ns) = Len(path) /\ SegmentsAccept(self, path, ns)}

\* the clients registered at a name that extends the path by a segment or more
RegisteredBelow(self, path) ==
    {c \in Clients : \E name \in NamesOf(c) :
        LET ns == Split(name, self.separator)
        IN  Len(ns) > Len(path) /\ SegmentsAccept(self, path, ns)}

\* C36 as stated: in every state reached by register_client calls, the
\* wildcard member set of the node at path P contains every client
\* registered exactly at P and every client registered at a descendant of P.
C36_WildcardMembersIncludeOwnPath ==
    \A path \in BPaths :
      LET node == NodeAt(bmap.broadcasts, path, bmap.match_any)
      IN  /\ (RegisteredAt(bmap, path) \cup RegisteredBelow(bmap, path)) # {}
                => node # None
          /\ node # None =>
                (RegisteredAt(bmap, path) \cup RegisteredBelow(bmap, path))
                    \subseteq node[1].members_wildcard

\* C36 (amended): in every state reached by register_client calls, the
\* wildcard member set of the node at path P is the set of the clients
\* registered at a descendant of P, a name that extends P by one segment or
\* more; the clients registered exactly at P are the members of that node
\* and are wildcard members of it only if also registered at a descendant.
C36_WildcardMembersAreDescendants ==
    \A path \in BPaths :
      LET node == NodeAt(bmap.broadcasts, path, bmap.match_any)
      IN  /\ (RegisteredAt(bmap, path) \cup RegisteredBelow(bmap, path)) # {}
                => node # None
          /\ node # None =>
                /\ node[1].members_wildcard = RegisteredBelow(bmap, path)
                /\ node[1].members = RegisteredAt(bmap, path)

\* c1 is registered at a and c2 at a/b: node a has the member c1 and the
\* wildcard member c2, and the root has both as wildcard members.
C36_Witness ==
    /\ registered = {<< <<"a">>, "c1" >>, << <<"a", "/", "b">>, "c2" >>}
    /\ NodeAt(bmap.broadcasts, << <<"a">> >>, bmap.match_any)[1].members = {"c1"}
    /\ NodeAt(bmap.broadcasts, << <<"a">> >>, bmap.match_any)[1].members_wildcard = {"c2"}
    /\ bmap.broadcasts.members_wildcard = {"c1", "c2"}

\* the result of get_clients_by_mask for a mask given by its segments
ClientsBySegments(self, ms) ==
    get_broadcast_clients_rec(self.broadcasts, ms, self.wildcard, self.match_any)

\* the segment values that occur at position i in a currently registered name
ValuesAt(self, i) ==
    {Split(pair[1], self.separator)[i] :
        pair \in {q \in registered : Len(Split(q[1], self.separator)) >= i}}

\* C37: in every state reached by register_client and unregister_client
\* calls, the result of a mask with a match-any token at some position is
\* the union of the results of the masks that have, in place of that token,
\* a segment value that occurs at that position in a currently registered
\* name.
C37_MatchAnyIsUnionOverValues ==
    \A mask \in BMasks :
      LET ms == Split(mask, bmap.separator)
      IN  \A i \in 1..Len(ms) :
            ms[i] \in bmap.match_any =>
              ClientsBySegments(bmap, ms) =
                UNION {ClientsBySegments(bmap, [ms EXCEPT ![i] = v]) : v \in ValuesAt(bmap, i)}

\* C38: when client c is registered at two different names n1 and n2,
\* unregister_client(n1, c) leaves c in the result of every mask that
\* matches n2: a client returned for such a mask before the call is returned
\* for it after the call.
C38_UnregisterKeepsOtherNames ==
    [][ (last'.op = "unregister_client" /\ last'.held) =>
            LET c  == last'.client[1]
                n1 == last'.topic[1]
            IN  \A n2 \in NamesOf(c) \ {n1} :
                  \A mask \in BMasks :
                    ( /\ MaskAccepts(bmap, mask, n2)
                      /\ c \in BroadcastMap_get_clients_by_mask(bmap, mask) )
                        => c \in BroadcastMap_get_clients_by_mask(bmap', mask)
      ]_vars

\* C39: unregister_client(name, c) for a (name, client) pair that is not
\* registered leaves the result of get_clients_by_mask unchanged for every
\* mask.
C39_UnregisterNotRegisteredIsNoop ==
    [][ (last'.op = "unregister_client" /\ ~last'.held) =>
            \A mask \in BMasks :
                BroadcastMap_get_clients_by_mask(bmap', mask)
                    = BroadcastMap_get_clients_by_mask(bmap, mask)
      ]_vars

\* ------------------------------------------------------------------------
\* SubMap with a formula prefix: the same method calls as in Spec, over
\* patterns made of literal and formula segments.
\* ------------------------------------------------------------------------
\* SubMap::new().match_any("+").wildcard("#").formula_prefix("!")
FormMap ==
    SubMap_formula_prefix(
        SubMap_wildcard(SubMap_match_any(SubMap_default, <<"+">>), <<"#">>),
        <<"!">>)

\* !ge(2)/b, !ne(2)/b, a/!ri(1..3), !a#gt(2)/b, !eq(2)
FormPatterns ==
    { <<"!", "g", "e", "(", "2", ")", "/", "b">>,
      <<"!", "n", "e", "(", "2", ")", "/", "b">>,
      <<"a", "/", "!", "r", "i", "(", "1", ".", ".", "3", ")">>,
      <<"!", "a", "#", "g", "t", "(", "2", ")", "/", "b">>,
      <<"!", "e", "q", "(", "2", ")">> }

\* 1/b, 2/b, 3/b, b/b, a3/b, a2/b, 2/a, a/2, a/4, a/b, 2, 2/b/b, and a first
\* segment one above the largest integer of 64 bits
FormTopics ==
    { <<"1", "/", "b">>,
      <<"2", "/", "b">>,
      <<"3", "/", "b">>,
      <<"b", "/", "b">>,
      <<"a", "3", "/", "b">>,
      <<"a", "2", "/", "b">>,
      <<"2", "/", "a">>,
      <<"a", "/", "2">>,
      <<"a", "/", "4">>,
      <<"a", "/", "b">>,
      <<"2">>,
      <<"2", "/", "b", "/", "b">>,
      <<"9", "2", "2", "3", "3", "7", "2", "0", "3", "6", "8", "5", "4", "7", "7", "5", "8", "0", "8", "/", "b">> }

FormInit ==
    /\ smap = FormMap
    /\ last = Call("new", None, None, FALSE, TRUE)
    /\ bmap = BroadcastMap_default
    /\ registered = {}
    /\ acl = AclMap_default
    /\ inserted = {}
    /\ eval = NoEval

FormNext ==
    \/ \E c \in Clients : Register(c)
    \/ \E c \in Clients : Unregister(c)
    \/ \E c \in Clients, p \in FormPatterns : Subscribe(c, p)
    \/ \E c \in Clients, p \in FormPatterns : Unsubscribe(c, p)
    \/ \E c \in Clients : UnsubscribeAll(c)

FormSpec == FormInit /\ [][FormNext]_vars

\* the pattern segment carries a formula
IsFormulaSegment(self, seg) ==
    self.formula_prefix # None /\ BeginsWith(seg, self.formula_prefix[1])

\* the formula carried by a pattern segment
FormulaOf(self, seg) ==
    CHOOSE f \in FormulaInputs :
        f.text = SubSeq(seg, Len(self.formula_prefix[1]) + 1, Len(seg))

\* the topic segment denotes an integer of 64 bits that satisfies the formula
IntegerSatisfies(f, seg) ==
    IntOf(seg) # None /\ Holds(f, IntOf(seg)[1])

\* the formula matches the topic segment: the segment begins with the key
\* prefix of the formula, if it has one, and the rest satisfies the function
FormulaAccepts(f, seg) ==
    IF f.prefix = None
    THEN Satisfies(f, seg)
    ELSE /\ BeginsWith(seg, f.prefix[1])
         /\ Satisfies(f, SubSeq(seg, Len(f.prefix[1]) + 1, Len(seg)))

\* C24 as stated: a formula segment matches a topic segment exactly when the
\* topic segment denotes a signed integer of 64 bits that satisfies the
\* formula, and the other pattern segments must match the other topic
\* segments: the client that has just subscribed the pattern is returned for
\* every such topic, and a client that holds nothing else for no other topic.
C24_FormulaSegmentNeedsInteger ==
    (last.op = "subscribe" /\ last.ret /\ ~last.held) =>
        LET c  == last.client[1]
            ps == Split(last.topic[1], smap.separator)
        IN  \A t \in FormTopics :
              LET ts == Split(t, smap.separator)
                  accepted ==
                      /\ Len(ts) = Len(ps)
                      /\ \A i \in 1..Len(ps) :
                            IF IsFormulaSegment(smap, ps[i])
                            THEN IntegerSatisfies(FormulaOf(smap, ps[i]), ts[i])
                            ELSE ps[i] = ts[i]
              IN  /\ accepted => c \in SubMap_get_subscribers(smap, t)
                  /\ (~accepted /\ SubMap_list_topics(smap, c) = {last.topic[1]})
                       => c \notin SubMap_get_subscribers(smap, t)

\* C24 (amended): a formula segment matches a topic segment exactly when the
\* topic segment begins with the key prefix of the formula, if it has one,
\* and the rest either denotes a signed integer of 64 bits that satisfies
\* the function or denotes no such integer while the function is ne; the
\* other pattern segments must match the other topic segments.
C24_FormulaSegmentMatches ==
    (last.op = "subscribe" /\ last.ret /\ ~last.held) =>
        LET c  == last.client[1]
            ps == Split(last.topic[1], smap.separator)
        IN  \A t \in FormTopics :
              LET ts == Split(t, smap.separator)
                  accepted ==
                      /\ Len(ts) = Len(ps)
                      /\ \A i \in 1..Len(ps) :
                            IF IsFormulaSegment(smap, ps[i])
                            THEN FormulaAccepts(FormulaOf(smap, ps[i]), ts[i])
                            ELSE ps[i] = ts[i]
              IN  /\ accepted => c \in SubMap_get_subscribers(smap, t)
                  /\ (~accepted /\ SubMap_list_topics(smap, c) = {last.topic[1]})
                       => c \notin SubMap_get_subscribers(smap, t)

\* A client subscribed !ge(2)/b as its only pattern: it is returned for 2/b
\* and 3/b, and not for 1/b, b/b or 2/a.
C24_Witness ==
    /\ last.op = "subscribe" /\ last.ret /\ ~last.held
    /\ last.topic[1] = <<"!", "g", "e", "(", "2", ")", "/", "b">>
    /\ SubMap_list_topics(smap, last.client[1]) = {last.topic[1]}
    /\ last.client[1] \in SubMap_get_subscribers(smap, <<"2", "/", "b">>)
    /\ last.client[1] \in SubMap_get_subscribers(smap, <<"3", "/", "b">>)
    /\ last.client[1] \notin SubMap_get_subscribers(smap, <<"1", "/", "b">>)
    /\ last.client[1] \notin SubMap_get_subscribers(smap, <<"b", "/", "b">>)
    /\ last.client[1] \notin SubMap_get_subscribers(smap, <<"2", "/", "a">>)

\* ------------------------------------------------------------------------
\* SubMap with a regex prefix: the same method calls as in Spec, over
\* patterns whose first segment is a regex or a literal.
\* ------------------------------------------------------------------------
\* SubMap::new().match_any("+").wildcard("#").regex_prefix("~")
RegexMap ==
    SubMap_regex_prefix(
        SubMap_wildcard(SubMap_match_any(SubMap_default, <<"+">>), <<"#">>),
        <<"~">>)

\* ~^a/x, ~a/x, ~^a/y, ~^b/x, a/x
RegexPatterns ==
    { <<"~", "^", "a", "/", "x">>,
      <<"~", "a", "/", "x">>,
      <<"~", "^", "a", "/", "y">>,
      <<"~", "^", "b", "/", "x">>,
      <<"a", "/", "x">> }

\* a/x, ba/x, a/y, b/x, ab/x, x, a/x/y
RegexTopics ==
    { <<"a", "/", "x">>,
      <<"b", "a", "/", "x">>,
      <<"a", "/", "y">>,
      <<"b", "/", "x">>,
      <<"a", "b", "/", "x">>,
      <<"x">>,
      <<"a", "/", "x", "/", "y">> }

RegexInit ==
    /\ smap = RegexMap
    /\ last = Call("new", None, None, FALSE, TRUE)
    /\ bmap = BroadcastMap_default
    /\ registered = {}
    /\ acl = AclMap_default
    /\ inserted = {}
    /\ eval = NoEval

RegexNext ==
    \/ \E c \in Clients : Register(c)
    \/ \E c \in Clients : Unregister(c)
    \/ \E c \in Clients, p \in RegexPatterns : Subscribe(c, p)
    \/ \E c \in Clients, p \in RegexPatterns : Unsubscribe(c, p)
    \/ \E c \in Clients : UnsubscribeAll(c)

RegexSpec == RegexInit /\ [][RegexNext]_vars

RECURSIVE RegexTextsDistinct(_)
\* in the node and in every node below it, no two regex children have the
\* same source text
RegexTextsDistinct(sub) ==
    /\ \A i, j \in 1..Len(sub.subtopics_by_regex) :
          i # j => sub.subtopics_by_regex[i].regex # sub.subtopics_by_regex[j].regex
    /\ \A child \in ChildNodes(sub) : RegexTextsDistinct(child)

\* the regex source text of the first segment of the pattern, None if that
\* segment carries no regex
FirstRegexText(self, p) ==
    and_then_strip_prefix(self.regex_prefix, Head(Split(p, self.separator)))

\* the clients that hold a pattern whose first segment carries the regex text
HoldersOfRegex(self, text) ==
    {c \in SubMap_list_clients(self) :
        \E p \in SubMap_list_topics(self, c) : FirstRegexText(self, p) = Some(text)}

\* C34: each node holds at most one regex child per distinct regex source
\* text; the clients that subscribed with the same regex text share one
\* child of the root, every client that still holds such a pattern is
\* returned for the topics the pattern matches whatever the others have
\* unsubscribed, and a regex child of the root exists only while some client
\* holds a pattern with its text.
C34_OneRegexChildPerText ==
    LET root == smap.subscriptions
    IN  /\ RegexTextsDistinct(root)
        /\ \A c \in SubMap_list_clients(smap) :
             \A p \in SubMap_list_topics(smap, c) :
               FirstRegexText(smap, p) # None =>
                 /\ \E i \in 1..Len(root.subtopics_by_regex) :
                       root.subtopics_by_regex[i].regex = FirstRegexText(smap, p)[1]
                 /\ \A t \in RegexTopics :
                       PatternMatches(smap, p, t) => c \in SubMap_get_subscribers(smap, t)
        /\ \A i \in 1..Len(root.subtopics_by_regex) :
             HoldersOfRegex(smap, root.subtopics_by_regex[i].regex) # {}

\* One client unsubscribed ~^a/x while the other still holds it: the root
\* has the one regex child ^a and the other client is returned for a/x.
C34_Witness ==
    /\ last.op = "unsubscribe" /\ last.held
    /\ last.topic[1] = <<"~", "^", "a", "/", "x">>
    /\ Len(smap.subscriptions.subtopics_by_regex) = 1
    /\ SubMap_get_subscribers(smap, <<"a", "/", "x">>) = Clients \ {last.client[1]}
    /\ \A c \in Clients \ {last.client[1]} :
          SubMap_list_topics(smap, c) = {<<"~", "^", "a", "/", "x">>}

\* ------------------------------------------------------------------------
\* SubMap without formula and regex prefix, and with the empty string
\* configured as one of them: the same method calls as in Spec.
\* ------------------------------------------------------------------------
\* SubMap::new().match_any("+").wildcard("#")
PlainMap == SubMap_wildcard(SubMap_match_any(SubMap_default, <<"+">>), <<"#">>)

\* no prefix, .formula_prefix(""), .regex_prefix("")
NoPrefixConfigs ==
    { PlainMap,
      SubMap_formula_prefix(PlainMap, <<>>),
      SubMap_regex_prefix(PlainMap, <<>>) }

\* a/b, +/b, ge(2)/b, !ge(2)/b, ~a/b
NoPrefixPatterns ==
    { <<"a", "/", "b">>,
      <<"+", "/", "b">>,
      <<"g", "e", "(", "2", ")", "/", "b">>,
      <<"!", "g", "e", "(", "2", ")", "/", "b">>,
      <<"~", "a", "/", "b">> }

\* a/b, c/b, 2/b, ge(2)/b, !ge(2)/b, ~a/b, a, a/c
NoPrefixTopics ==
    { <<"a", "/", "b">>,
      <<"c", "/", "b">>,
      <<"2", "/", "b">>,
      <<"g", "e", "(", "2", ")", "/", "b">>,
      <<"!", "g", "e", "(", "2", ")", "/", "b">>,
      <<"~", "a", "/", "b">>,
      <<"a">>,
      <<"a", "/", "c">> }

NoPrefixInit ==
    /\ smap \in NoPrefixConfigs
    /\ last = Call("new", None, None, FALSE, TRUE)
    /\ bmap = BroadcastMap_default
    /\ registered = {}
    /\ acl = AclMap_default
    /\ inserted = {}
    /\ eval = NoEval

NoPrefixNext ==
    \/ \E c \in Clients : Register(c)
    \/ \E c \in Clients : Unregister(c)
    \/ \E c \in Clients, p \in NoPrefixPatterns : Subscribe(c, p)
    \/ \E c \in Clients, p \in NoPrefixPatterns : Unsubscribe(c, p)
    \/ \E c \in Clients : UnsubscribeAll(c)

NoPrefixSpec == NoPrefixInit /\ [][NoPrefixNext]_vars

RECURSIVE NoPredicateChildren(_)
\* neither the node nor any node below it has a formula child or a regex child
NoPredicateChildren(sub) ==
    /\ DOMAIN sub.subtopics_by_formula = {}
    /\ Len(sub.subtopics_by_regex) = 0
    /\ \A child \in ChildNodes(sub) : NoPredicateChildren(child)

\* C35: with no formula prefix and no regex prefix configured, or with the
\* empty string configured as prefix, the trie has no formula child and no
\* regex child, and every segment that is neither a wildcard nor a match-any
\* token is inserted and matched as a literal: the client that has just
\* subscribed a pattern without wildcard token is returned for every topic
\* of as many segments whose segments equal the pattern's, match-any
\* segments aside.
C35_NoPrefixMeansLiteral ==
    /\ NoPredicateChildren(smap.subscriptions)
    /\ (last.op = "subscribe" /\ last.ret /\ ~last.held
          /\ WildcardFree(smap, last.topic[1])) =>
        LET c  == last.client[1]
            ps == Split(last.topic[1], smap.separator)
        IN  \A t \in NoPrefixTopics :
              LET ts == Split(t, smap.separator)
              IN  (Len(ts) = Len(ps) /\ SegmentsAccept(smap, ps, ts))
                    => c \in SubMap_get_subscribers(smap, t)

====
